---- MODULE Spec2Model ----
(***************************************************************************)
(* ReedOut: the live-operations core.                                      *)
(*                                                                         *)
(* Part 1, the telemetry collector (package stats): the polling loops that *)
(* Start spawns, one tick of collect split at every store call, metrics    *)
(* call, critical section and conduit send, the subscriber registry with   *)
(* the slices Go keeps it in, and the servers/stats tables the tick reads  *)
(* and writes.  Lifecycle actions (scheduler and API) change a server's    *)
(* stored status between any two steps of a tick.                          *)
(***************************************************************************)
EXTENDS Integers, Sequences, FiniteSets, TLC

(***************************************************************************)
(* Bounds of the model.                                                    *)
(***************************************************************************)
\* calls of Collector.Start explored (each spawns one polling loop)
MaxLoops == 2
\* calls of Collector.Subscribe explored (each makes one conduit)
MaxChans == 2
\* successful metrics fetches explored (each makes one sample)
MaxSamples == 2
\* advances of the clock explored (each of ClockStep hours)
MaxClockSteps == 2
\* bits of a cumulative CPU counter explored (the program's are uint64)
CounterBits == 3
\* largest online_cpus explored
MaxCpus == 2
\* characters of a cron field written freely
MaxFieldLen == 4
\* comma-separated parts of a cron field written part by part
MaxParts == 2
\* rows of the schedules table
MaxSchedules == 2
\* frames in a log stream
MaxFrames == 2
\* payload bytes of a frame
MaxPayload == 2
\* messages a console client sends
MaxMsgs == 2
\* live-stats sessions
MaxSessions == 2
\* minutes of wall-clock time explored by the scheduler
MaxMinutes == 2
\* times the wall clock is set back
MaxSkews == 1

(***************************************************************************)
(* Program constants.                                                      *)
(***************************************************************************)
\* make(chan *Stats, 1)
ChanCap == 1
\* datetime('now', '-24 hours')
RetentionHours == 24
\* granularity of the modelled clock, in hours: a row is as old as the
\* retention period after one step and older after two
ClockStep == RetentionHours

\* rows of the servers table, in table order
Targets == <<"a", "b">>
TargetSet == {Targets[i] : i \in 1..Len(Targets)}
Loops == 1..MaxLoops
Chans == 1..MaxChans

\* a nil *Stats
NoStats == [server_id |-> "", seq |-> 0]
\* a nil []chan *Stats held by a tick
NoSnap == [live |-> FALSE, arr |-> <<>>, len |-> 0, idx |-> 0,
           start |-> <<>>, offered |-> <<>>]

VARIABLES
  status,      \* servers.status, per server id
  stats_rows,  \* the stats table: [server_id, seq, recorded_at]
  clock,       \* wall clock, hours
  latest,      \* Collector.latest
  listeners,   \* Collector.listeners: per server a slice [arr, len]; cap = Len(arr)
  chanBuf,     \* buffer of each conduit
  chanClosed,  \* whether each conduit is closed
  nextChan,    \* conduits made so far + 1
  mu,          \* Collector.mu: 0 free, else the loop holding it
  cancel,      \* Collector.cancel: 0 nil, else the loop whose context it cancels
  cancelled,   \* per loop: its context is cancelled
  nloops,      \* polling loops spawned so far
  pc,          \* per loop: position in the goroutine of Start
  ticker,      \* per loop: a tick waits in ticker.C
  servers,     \* per loop: servers of this tick not yet processed (head = srv)
  stats,       \* per loop: the local stats of collect
  err,         \* per loop: the local err of collect
  snap,        \* per loop: the local listeners of collect and the range index
  nextSample,  \* successful fetches so far + 1
  lastFetched, \* per server: seq of its most recent successful fetch, 0 if none
  panicked,    \* the process died of a send on a closed channel
  dockerStats, \* fetchStats: the decoded dockerStats
  cpuPercent,  \* fetchStats: cpuPercent, NoPercent until it is calculated
  cronExpr,    \* the expression handed to ParseCron, a sequence of characters
  cronIntent,  \* how cronExpr was written: its parts before they became text
  cronResult,  \* what ParseCron returned, NoResult before the call
  cronMatch,   \* a time and what Matches returned for it, NoMatch before the call
  schedules,   \* the schedules table, in table order; a row's id is its index
  wall,        \* the wall clock, in ticks of which TicksPerMinute make a minute
  skews,       \* times the wall clock was set back so far
  spc,         \* position of the goroutine of Scheduler.Start
  schedCancelled, \* the context of Scheduler.Start is cancelled
  sleepLeft,   \* ticks until the timer of time.After fires
  tickNow,     \* tick: now
  jobs,        \* tick: jobs not yet processed (head = j)
  inflight,    \* capability calls (docker, backup) that have not returned
  passes,      \* minutes in which an evaluation pass has started
  loaded,      \* ids of the jobs the current pass loaded, in order
  dispatched,  \* ids of the schedules the current pass dispatched, in order
  callErr,     \* execute: the call that returned and its err, until tick moves on
  overrun,     \* minutes whose boundary went by while an evaluation pass was running
  hpc,         \* position of the goroutine of ConsoleHandler.Handle
  response,    \* what Handle answered outside the pumps, "none" if nothing
  upgraded,    \* the connection was upgraded to a WebSocket
  connState,   \* conn: "none", "open" or "closed"
  clientGone,  \* the client has left
  tty,         \* inspect.Config.Tty of the container
  logState,    \* logReader: "none", "open" or "closed"
  attachState, \* attach: "none", "open" or "closed"
  logBuf,      \* bytes of the log stream not yet read
  logEnd,      \* what follows the bytes of the log stream
  size,        \* the size read from the last header
  payload,     \* the payload, or in TTY mode buf[:n], about to be written
  readErr,     \* TTY mode: err of the last Read
  outEnd,      \* why the outbound pump ended, "none" while it runs
  forwarded,   \* the messages written to the client, in order
  readBytes,   \* the bytes the outbound pump has read
  frames,      \* the frames the container wrote
  cut,         \* how many bytes of them the log stream holds
  ipc,         \* position of the inbound goroutine
  inMsg,       \* the message the inbound goroutine has read
  clientMsgs,  \* messages of the client not yet read
  received,    \* the messages the inbound goroutine has read, in order
  stdin,       \* the bytes written to the container's attached input
  live,        \* per live-stats session: position of StatsHandler.Live, serverID, ch
  logins,      \* the sessions table: per token, no row, a row, or a row past expires_at
  consoleReq,  \* the console request the router has dispatched
  liveReq,     \* per live-stats session: the request the router has dispatched
  restore,     \* position of BackupHandler.Restore, its serverID and its answer
  dataDir,     \* per server: what its data directory holds
  schedReq     \* the request ScheduleHandler is handling, its position and answer

\* the variables of calculateCPUPercent
cpuVars == <<dockerStats, cpuPercent>>

\* the variables of the cron parser
cronVars == <<cronExpr, cronIntent, cronResult, cronMatch>>

\* the variables of the scheduler
schedVars == <<schedules, wall, skews, spc, schedCancelled, sleepLeft, tickNow, jobs,
               inflight, passes, loaded, dispatched, callErr, overrun>>

\* the variables of the console session
consoleVars == <<hpc, response, upgraded, connState, clientGone, tty, logState,
                 attachState, logBuf, logEnd, size, payload, readErr, outEnd, forwarded,
                 readBytes, frames, cut, ipc, inMsg, clientMsgs, received, stdin>>

\* the variables of a backup restore
restoreVars == <<restore, dataDir>>

\* the variables of the HTTP handlers
apiVars == <<live, logins, consoleReq, liveReq, restoreVars, schedReq>>

\* what the collector's loop, registry and store do not touch
otherVars == <<cpuVars, cronVars, schedVars, consoleVars, apiVars>>

vars == <<status, stats_rows, clock, latest, listeners, chanBuf, chanClosed,
          nextChan, mu, cancel, cancelled, nloops, pc, ticker, servers, stats,
          err, snap, nextSample, lastFetched, panicked, otherVars>>

\* the variables of the collector and its stats table
telemetryVars == <<stats_rows, clock, latest, listeners, chanBuf, chanClosed,
                   nextChan, mu, cancel, cancelled, nloops, pc, ticker, servers,
                   stats, err, snap, nextSample, lastFetched, panicked>>

\* the variables of the collector, its store and its environment
collectorVars == <<status, telemetryVars>>

sampleVars == <<nextSample, lastFetched>>
storeVars == <<status, stats_rows, clock>>
registryVars == <<listeners, chanBuf, chanClosed, nextChan>>
loopVars == <<cancel, cancelled, nloops, pc, ticker, servers, stats, err, snap>>

(***************************************************************************)
(* Slices.                                                                 *)
(***************************************************************************)
\* the elements of a slice: the first len slots of its backing array
SliceElems(s) == SubSeq(s.arr, 1, s.len)

\* the capacity append gives a full slice of capacity c that grows by one
GrowCap(c) == IF c = 0 THEN 1 ELSE 2 * c

\* append(s, ch): in place when capacity is left, else into a new array
AppendSlice(s, ch) ==
  IF s.len < Len(s.arr)
  THEN [arr |-> [s.arr EXCEPT ![s.len + 1] = ch], len |-> s.len + 1]
  ELSE [arr |-> [k \in 1..GrowCap(Len(s.arr)) |->
                   IF k <= s.len THEN s.arr[k]
                   ELSE IF k = s.len + 1 THEN ch ELSE 0],
        len |-> s.len + 1]

\* a slip: s[:i] alone, which drops every element after i as well
RemoveAtTruncating(s, i) == [arr |-> s.arr, len |-> i - 1]

\* append(s[:i], s[i+1:]...): the tail moves down one slot in the same array
RemoveAt(s, i) ==
  [arr |-> [k \in 1..Len(s.arr) |->
              IF k >= i /\ k < s.len THEN s.arr[k + 1] ELSE s.arr[k]],
   len |-> s.len - 1]

\* index of ch in the slice, 0 when it is not there
IndexOf(s, ch) ==
  IF \E k \in 1..s.len : s.arr[k] = ch
  THEN CHOOSE k \in 1..s.len : s.arr[k] = ch /\ \A j \in 1..(k - 1) : s.arr[j] # ch
  ELSE 0

(***************************************************************************)
(* Store.                                                                  *)
(***************************************************************************)
\* container_id of each server
container_id == [t \in TargetSet |-> "c_" \o t]

\* SELECT id, container_id FROM servers WHERE status = 'running' AND container_id != ''
RunningServers ==
  SelectSeq(Targets, LAMBDA t : status[t] = "running" /\ container_id[t] # "")

\* a slip: <= in the DELETE, which also removes a row exactly 24 hours old
SweptInclusive(rows, now) == {r \in rows : ~(r.recorded_at <= now - RetentionHours)}

\* DELETE FROM stats WHERE recorded_at < datetime('now', '-24 hours')
Swept(rows, now) == {r \in rows : ~(r.recorded_at < now - RetentionHours)}

\* a slip: the status recorded without looking at err
executeIgnoringErr(action, ok, old) ==
  IF action = "start" THEN "running"
  ELSE IF action = "stop" THEN "exited"
  ELSE IF action = "restart" THEN "running"
  ELSE old

\* the status a lifecycle action leaves: Scheduler.execute, ServerHandler.Start/Stop/Restart
execute(action, ok, old) ==
  IF ~ok THEN old
  ELSE IF action = "start" THEN "running"
  ELSE IF action = "stop" THEN "exited"
  ELSE IF action = "restart" THEN "running"
  ELSE old

Actions == {"start", "stop", "restart", "backup"}

(***************************************************************************)
(* Initial state: NewCollector, two servers running, empty stats table.    *)
(***************************************************************************)
NewCollector ==
  /\ status = [t \in TargetSet |-> "running"]
  /\ stats_rows = {}
  /\ clock = 0
  /\ latest = [t \in TargetSet |-> NoStats]
  /\ listeners = [t \in TargetSet |-> [arr |-> <<>>, len |-> 0]]
  /\ chanBuf = [c \in Chans |-> <<>>]
  /\ chanClosed = [c \in Chans |-> FALSE]
  /\ nextChan = 1
  /\ mu = 0
  /\ cancel = 0
  /\ cancelled = [l \in Loops |-> FALSE]
  /\ nloops = 0
  /\ pc = [l \in Loops |-> "none"]
  /\ ticker = [l \in Loops |-> FALSE]
  /\ servers = [l \in Loops |-> <<>>]
  /\ stats = [l \in Loops |-> NoStats]
  /\ err = [l \in Loops |-> FALSE]
  /\ snap = [l \in Loops |-> NoSnap]
  /\ nextSample = 1
  /\ lastFetched = [t \in TargetSet |-> 0]
  /\ panicked = FALSE

(***************************************************************************)
(* Collector.Start, Collector.Stop and the goroutine of Start.             *)
(***************************************************************************)
Alive(l) == pc[l] \notin {"none", "done"}

\* Start: a new context replaces c.cancel and a new goroutine runs collect at once
Start ==
  /\ ~panicked
  /\ UNCHANGED otherVars
  /\ nloops < MaxLoops
  /\ nloops' = nloops + 1
  /\ cancel' = nloops + 1
  /\ pc' = [pc EXCEPT ![nloops + 1] = "collect"]
  /\ UNCHANGED <<cancelled, ticker, servers, stats, err, snap>>
  /\ UNCHANGED <<storeVars, registryVars, latest, mu, sampleVars, panicked>>

\* Stop: cancels the context c.cancel holds; a loop parked in its select on
\* that context wakes with the Done case
Stop ==
  /\ ~panicked
  /\ UNCHANGED otherVars
  /\ cancel # 0
  /\ cancelled' = [cancelled EXCEPT ![cancel] = TRUE]
  /\ pc' = IF pc[cancel] = "parked" THEN [pc EXCEPT ![cancel] = "done"] ELSE pc
  /\ UNCHANGED <<cancel, nloops, ticker, servers, stats, err, snap>>
  /\ UNCHANGED <<storeVars, registryVars, latest, mu, sampleVars, panicked>>

\* the ticker fires: a parked loop wakes with the tick, otherwise the tick
\* waits in the one-slot channel ticker.C (a tick that finds it full is lost)
TickerFire(l) ==
  /\ ~panicked
  /\ UNCHANGED otherVars
  /\ Alive(l)
  /\ \/ /\ pc[l] = "parked"
        /\ pc' = [pc EXCEPT ![l] = "collect"]
        /\ UNCHANGED ticker
     \/ /\ pc[l] # "parked"
        /\ ~ticker[l]
        /\ ticker' = [ticker EXCEPT ![l] = TRUE]
        /\ UNCHANGED pc
  /\ UNCHANGED <<cancel, cancelled, nloops, servers, stats, err, snap>>
  /\ UNCHANGED <<storeVars, registryVars, latest, mu, sampleVars, panicked>>

\* the select of the loop: a ready case is taken (either, when both are
\* ready), and with none ready the goroutine parks
Select(l) ==
  /\ ~panicked
  /\ UNCHANGED otherVars
  /\ pc[l] = "select"
  /\ \/ /\ cancelled[l]
        /\ pc' = [pc EXCEPT ![l] = "done"]
        /\ UNCHANGED ticker
     \/ /\ ticker[l]
        /\ ticker' = [ticker EXCEPT ![l] = FALSE]
        /\ pc' = [pc EXCEPT ![l] = "collect"]
     \/ /\ ~cancelled[l] /\ ~ticker[l]
        /\ pc' = [pc EXCEPT ![l] = "parked"]
        /\ UNCHANGED ticker
  /\ err' = [err EXCEPT ![l] = FALSE]
  /\ UNCHANGED <<cancel, cancelled, nloops, servers, stats, snap>>
  /\ UNCHANGED <<storeVars, registryVars, latest, mu, sampleVars, panicked>>

(***************************************************************************)
(* Collector.collect, one step per store call, metrics call, critical      *)
(* section and conduit send.                                               *)
(***************************************************************************)
\* where the tick goes once the servers in rest are left to process
PcFor(rest) == IF rest = <<>> THEN "sweep" ELSE "fetch"

\* a slip: return instead of continue, which ends the tick at the first error
AfterFetchErrorAbort(list) == <<>>

\* the servers left after the fetch for the head of list failed (continue)
AfterFetchError(list) == Tail(list)

\* the servers left after the head of list was processed
AfterServer(list) == Tail(list)

\* a slip: the cache update skipped when the insert failed
CacheValueSkipOnError(insertErr, old, new) == IF insertErr THEN old ELSE new

\* the value c.latest[srv.id] gets after the insert returned insertErr
CacheValue(insertErr, old, new) == new

\* a slip: a send that queues behind the sample already held
TrySendQueued(buf, s) == Append(buf, s)

\* a slip: a send that replaces the sample already held
TrySendNewest(buf, s) == <<s>>

\* ch <- stats under select/default: the buffer of the channel afterwards
TrySend(buf, s) == IF Len(buf) < ChanCap THEN Append(buf, s) ELSE buf

\* a slip: a failed query ends the goroutine of the loop
AfterQueryErrorExit == "done"

\* where the loop is after collect returned on a failed query: at its select
AfterQueryError == "select"

\* the query for the running servers; an error ends the tick
Query(l, ok) ==
  /\ ~panicked
  /\ UNCHANGED otherVars
  /\ pc[l] = "collect"
  /\ IF ok
     THEN /\ servers' = [servers EXCEPT ![l] = RunningServers]
          /\ pc' = [pc EXCEPT ![l] = PcFor(RunningServers)]
     ELSE /\ servers' = [servers EXCEPT ![l] = <<>>]
          /\ pc' = [pc EXCEPT ![l] = AfterQueryError]
  /\ UNCHANGED <<cancel, cancelled, nloops, ticker, stats, err, snap>>
  /\ UNCHANGED <<storeVars, registryVars, latest, mu, sampleVars, panicked>>

\* fetchStats for srv: a sample, or an error (the only outcome once the
\* context is cancelled), after which the tick continues with the next server
Fetch(l, ok) ==
  /\ ~panicked
  /\ UNCHANGED otherVars
  /\ pc[l] = "fetch"
  /\ IF ok
     THEN /\ ~cancelled[l]
          /\ nextSample <= MaxSamples
          /\ stats' = [stats EXCEPT ![l] =
                         [server_id |-> Head(servers[l]), seq |-> nextSample]]
          /\ nextSample' = nextSample + 1
          /\ lastFetched' = [lastFetched EXCEPT ![Head(servers[l])] = nextSample]
          /\ pc' = [pc EXCEPT ![l] = "insert"]
          /\ UNCHANGED servers
     ELSE /\ servers' = [servers EXCEPT ![l] = AfterFetchError(servers[l])]
          /\ pc' = [pc EXCEPT ![l] = PcFor(servers'[l])]
          /\ UNCHANGED <<stats, sampleVars>>
  /\ UNCHANGED <<cancel, cancelled, nloops, ticker, err, snap>>
  /\ UNCHANGED <<storeVars, registryVars, latest, mu, panicked>>

\* INSERT INTO stats: the row gets the store's clock; an error is only logged
Insert(l, ok) ==
  /\ ~panicked
  /\ UNCHANGED otherVars
  /\ pc[l] = "insert"
  /\ IF ok
     THEN stats_rows' = stats_rows \cup
            {[server_id |-> stats[l].server_id, seq |-> stats[l].seq,
              recorded_at |-> clock]}
     ELSE UNCHANGED stats_rows
  /\ err' = [err EXCEPT ![l] = ~ok]
  /\ pc' = [pc EXCEPT ![l] = "lock"]
  /\ UNCHANGED <<cancel, cancelled, nloops, ticker, servers, stats, snap>>
  /\ UNCHANGED <<status, clock, registryVars, latest, mu, sampleVars, panicked>>

\* c.mu.Lock()
Lock(l) ==
  /\ ~panicked
  /\ UNCHANGED otherVars
  /\ pc[l] = "lock"
  /\ mu = 0
  /\ mu' = l
  /\ pc' = [pc EXCEPT ![l] = "cache"]
  /\ UNCHANGED <<cancel, cancelled, nloops, ticker, servers, stats, err, snap>>
  /\ UNCHANGED <<storeVars, registryVars, latest, sampleVars, panicked>>

\* the holder of c.mu when the deferred unlock is left to the end of the tick
HeldToTickEnd(l) == l

\* the holder of c.mu after c.mu.Unlock() of loop l: nobody
Unlock(l) == 0

\* c.latest[srv.id] = stats; listeners := c.listeners[srv.id]; c.mu.Unlock()
Cache(l) ==
  LET srv == Head(servers[l])
      ls == listeners[srv]
  IN
  /\ ~panicked
  /\ UNCHANGED otherVars
  /\ pc[l] = "cache"
  /\ latest' = [latest EXCEPT ![srv] = CacheValue(err[l], latest[srv], stats[l])]
  /\ mu' = Unlock(l)
  /\ IF ls.len = 0
     THEN /\ servers' = [servers EXCEPT ![l] = AfterServer(servers[l])]
          /\ pc' = [pc EXCEPT ![l] = PcFor(servers'[l])]
          /\ stats' = [stats EXCEPT ![l] = NoStats]
          /\ err' = [err EXCEPT ![l] = FALSE]
          /\ UNCHANGED snap
     ELSE /\ snap' = [snap EXCEPT ![l] =
                        [live |-> TRUE, arr |-> <<>>, len |-> ls.len, idx |-> 1,
                         start |-> SliceElems(ls), offered |-> <<>>]]
          /\ pc' = [pc EXCEPT ![l] = "send"]
          /\ UNCHANGED <<servers, stats, err>>
  /\ UNCHANGED <<cancel, cancelled, nloops, ticker>>
  /\ UNCHANGED <<storeVars, registryVars, sampleVars, panicked>>

\* the channel the range loop of the tick reads at its index: from the array
\* c.listeners[srv.id] still uses, or from the array it left behind
SnapElem(l) ==
  IF snap[l].live
  THEN listeners[Head(servers[l])].arr[snap[l].idx]
  ELSE snap[l].arr[snap[l].idx]

\* one iteration of the range over listeners: a non-blocking send; a send on
\* a closed channel panics
Send(l) ==
  LET ch == SnapElem(l)
      last == snap[l].idx = snap[l].len
  IN
  /\ ~panicked
  /\ UNCHANGED otherVars
  /\ pc[l] = "send"
  /\ IF chanClosed[ch]
     THEN /\ panicked' = TRUE
          /\ UNCHANGED <<chanBuf, snap, servers, stats, err, pc>>
     ELSE /\ chanBuf' = [chanBuf EXCEPT ![ch] = TrySend(chanBuf[ch], stats[l])]
          /\ UNCHANGED panicked
          /\ IF last
             THEN /\ servers' = [servers EXCEPT ![l] = AfterServer(servers[l])]
                  /\ pc' = [pc EXCEPT ![l] = PcFor(servers'[l])]
                  /\ stats' = [stats EXCEPT ![l] = NoStats]
                  /\ err' = [err EXCEPT ![l] = FALSE]
                  /\ snap' = [snap EXCEPT ![l] = NoSnap]
             ELSE /\ snap' = [snap EXCEPT ![l].idx = @ + 1,
                                          ![l].offered = Append(@, ch)]
                  /\ UNCHANGED <<servers, stats, err, pc>>
  /\ UNCHANGED <<cancel, cancelled, nloops, ticker>>
  /\ UNCHANGED <<storeVars, listeners, chanClosed, nextChan, latest, mu, sampleVars>>

\* the retention sweep that ends the tick; an error is only logged
Sweep(l, ok) ==
  /\ ~panicked
  /\ UNCHANGED otherVars
  /\ pc[l] = "sweep"
  /\ IF ok
     THEN stats_rows' = Swept(stats_rows, clock)
     ELSE UNCHANGED stats_rows
  /\ err' = [err EXCEPT ![l] = ~ok]
  /\ pc' = [pc EXCEPT ![l] = "select"]
  /\ UNCHANGED <<cancel, cancelled, nloops, ticker, servers, stats, snap>>
  /\ UNCHANGED <<status, clock, registryVars, latest, mu, sampleVars, panicked>>

(***************************************************************************)
(* Collector.Subscribe, Collector.Unsubscribe, and a consumer's receive.   *)
(***************************************************************************)
\* the local listeners of a tick that ranges over the slice of server t
Ranging(l, t) == pc[l] = "send" /\ snap[l].live /\ Head(servers[l]) = t

\* Subscribe: a new one-slot channel is appended to the slice of the server;
\* when append moves the slice to a new array, a tick ranging over the old
\* array keeps it
SubscribeCall(t) ==
  LET ch == nextChan
      old == listeners[t]
      moved == old.len = Len(old.arr)
  IN
  /\ ~panicked
  /\ nextChan <= MaxChans
  /\ mu = 0
  /\ nextChan' = nextChan + 1
  /\ listeners' = [listeners EXCEPT ![t] = AppendSlice(old, ch)]
  /\ snap' = [l \in Loops |->
                IF moved /\ Ranging(l, t)
                THEN [snap[l] EXCEPT !.live = FALSE, !.arr = old.arr]
                ELSE snap[l]]
  /\ UNCHANGED <<cancel, cancelled, nloops, pc, ticker, servers, stats, err>>
  /\ UNCHANGED <<storeVars, chanBuf, chanClosed, latest, mu, sampleVars, panicked>>

\* a caller outside the live-stats sessions
Subscribe(t) == SubscribeCall(t) /\ UNCHANGED otherVars

\* Unsubscribe: the first slot holding ch is cut out of the slice of the
\* server and ch is closed; nothing happens when ch is not in the slice
UnsubscribeCall(t, ch) ==
  LET i == IndexOf(listeners[t], ch) IN
  /\ ~panicked
  /\ ch < nextChan
  /\ mu = 0
  /\ IF i # 0
     THEN /\ listeners' = [listeners EXCEPT ![t] = RemoveAt(listeners[t], i)]
          /\ chanClosed' = [chanClosed EXCEPT ![ch] = TRUE]
     ELSE UNCHANGED <<listeners, chanClosed>>
  /\ UNCHANGED <<loopVars, storeVars, chanBuf, nextChan, latest, mu, sampleVars, panicked>>

\* a caller outside the live-stats sessions
Unsubscribe(t, ch) == UnsubscribeCall(t, ch) /\ UNCHANGED otherVars

\* the consumer of a conduit takes the sample out of it
ReceiveCall(ch) ==
  /\ ~panicked
  /\ ch < nextChan
  /\ chanBuf[ch] # <<>>
  /\ chanBuf' = [chanBuf EXCEPT ![ch] = Tail(chanBuf[ch])]
  /\ UNCHANGED <<loopVars, storeVars, listeners, chanClosed, nextChan, latest, mu,
                 sampleVars, panicked>>

\* a caller outside the live-stats sessions
Receive(ch) == ReceiveCall(ch) /\ UNCHANGED otherVars

(***************************************************************************)
(* The environment of the collector: lifecycle actions and the clock.      *)
(***************************************************************************)
\* Scheduler.execute or ServerHandler.Start/Stop/Restart on server t
Lifecycle(action, t, ok) ==
  /\ ~panicked
  /\ UNCHANGED otherVars
  /\ status' = [status EXCEPT ![t] = execute(action, ok, status[t])]
  /\ status' # status
  /\ UNCHANGED <<stats_rows, clock, registryVars, loopVars, latest, mu, sampleVars,
                 panicked>>

\* time passes
AdvanceClock ==
  /\ ~panicked
  /\ UNCHANGED otherVars
  /\ clock + ClockStep <= MaxClockSteps * ClockStep
  /\ clock' = clock + ClockStep
  /\ UNCHANGED <<status, stats_rows, registryVars, loopVars, latest, mu, sampleVars,
                 panicked>>

(***************************************************************************)
(* calculateCPUPercent.  Counters are unsigned words of CounterBits bits,  *)
(* so a subtraction wraps as uint64 does; the float64 result is kept as    *)
(* an exact fraction in lowest terms.                                      *)
(***************************************************************************)
\* one more than the largest value of a counter
Word == 2 ^ CounterBits

\* a decoded dockerStatsJSON, the fields calculateCPUPercent reads
DockerStats ==
  [total_usage : 0..(Word - 1), pre_total_usage : 0..(Word - 1),
   system_cpu_usage : 0..(Word - 1), pre_system_cpu_usage : 0..(Word - 1),
   online_cpus : 0..MaxCpus]

\* no stats decoded yet
NoDockerStats ==
  [total_usage |-> 0, pre_total_usage |-> 0, system_cpu_usage |-> 0,
   pre_system_cpu_usage |-> 0, online_cpus |-> 0]

\* cpuPercent before calculateCPUPercent has run
NoPercent == [num |-> 0, den |-> 0]

RECURSIVE GCD(_, _)
GCD(a, b) == IF b = 0 THEN a ELSE GCD(b, a % b)

\* the fraction n/d in lowest terms, d > 0
Fraction(n, d) == LET g == GCD(n, d) IN [num |-> n \div g, den |-> d \div g]

\* the fraction f times the integer k
Times(f, k) == LET g == GCD(k, f.den) IN [num |-> f.num * (k \div g), den |-> f.den \div g]

\* float64(cur - pre) of two unsigned counters: the subtraction wraps
Delta(cur, pre) == (cur - pre) % Word

\* a slip: online_cpus used as reported
OnlineCPUsRaw(n) == n

\* cpus := float64(OnlineCPUs); if cpus == 0 { cpus = 1 }
OnlineCPUs(n) == IF n = 0 THEN 1 ELSE n

\* calculateCPUPercent from the two deltas on
PercentOf(cpuDelta, systemDelta, online_cpus) ==
  IF systemDelta <= 0 \/ cpuDelta <= 0
  THEN Fraction(0, 1)
  ELSE LET ratio == Fraction(cpuDelta, systemDelta)
            perCpu == Times(ratio, OnlineCPUs(online_cpus))
       IN Times(perCpu, 100)

calculateCPUPercent(s) ==
  PercentOf(Delta(s.total_usage, s.pre_total_usage),
            Delta(s.system_cpu_usage, s.pre_system_cpu_usage),
            s.online_cpus)

\* fetchStats decodes the stats of a container, once per call
Unmarshal ==
  /\ dockerStats = NoDockerStats
  /\ cpuPercent = NoPercent
  /\ dockerStats' \in DockerStats
  /\ cpuPercent' = NoPercent
  /\ UNCHANGED <<collectorVars, cronVars, schedVars, consoleVars, apiVars>>

\* fetchStats: cpuPercent := calculateCPUPercent(dockerStats)
Calculate ==
  /\ cpuPercent = NoPercent
  /\ cpuPercent' = calculateCPUPercent(dockerStats)
  /\ UNCHANGED <<dockerStats, collectorVars, cronVars, schedVars, consoleVars, apiVars>>


(***************************************************************************)
(* The cron parser (package scheduler).  An expression is a sequence of    *)
(* one-character strings; strings.Fields, strings.Split, strings.SplitN    *)
(* and strconv.Atoi work on it character by character.                     *)
(***************************************************************************)
Digits == <<"0", "1", "2", "3", "4", "5", "6", "7", "8", "9">>
IsDigit(c) == \E i \in 1..Len(Digits) : Digits[i] = c
DigitVal(c) == (CHOOSE i \in 1..Len(Digits) : Digits[i] = c) - 1

\* the number a sequence of digits writes
RECURSIVE Decimal(_)
Decimal(s) ==
  IF s = <<>> THEN 0
  ELSE Decimal(SubSeq(s, 1, Len(s) - 1)) * 10 + DigitVal(s[Len(s)])

\* strconv.Atoi: an optional sign and at least one digit, nothing else
Atoi(s) ==
  LET signed == s # <<>> /\ s[1] \in {"+", "-"}
      digits == IF signed THEN Tail(s) ELSE s
  IN IF digits = <<>> \/ \E i \in 1..Len(digits) : ~IsDigit(digits[i])
     THEN [ok |-> FALSE, val |-> 0]
     ELSE [ok |-> TRUE,
           val |-> IF signed /\ s[1] = "-" THEN 0 - Decimal(digits)
                   ELSE Decimal(digits)]

\* strings.Index for one character: its first position in s, 0 when absent
Index(s, c) ==
  IF \E i \in 1..Len(s) : s[i] = c
  THEN CHOOSE i \in 1..Len(s) : s[i] = c /\ \A j \in 1..(i - 1) : s[j] # c
  ELSE 0

\* strings.Contains for one character
Contains(s, c) == Index(s, c) # 0

\* strings.HasPrefix
HasPrefix(s, prefix) ==
  Len(s) >= Len(prefix) /\ SubSeq(s, 1, Len(prefix)) = prefix

\* strings.SplitN(s, c, 2): s cut at the first c
SplitN2(s, c) ==
  LET i == Index(s, c)
  IN IF i = 0 THEN <<s>> ELSE <<SubSeq(s, 1, i - 1), SubSeq(s, i + 1, Len(s))>>

\* strings.Split(s, c): s cut at every c, empty pieces kept
RECURSIVE Split(_, _)
Split(s, c) ==
  LET i == Index(s, c)
  IN IF i = 0 THEN <<s>>
     ELSE <<SubSeq(s, 1, i - 1)>> \o Split(SubSeq(s, i + 1, Len(s)), c)

\* strings.Fields(s): the maximal runs of s without white space
RECURSIVE Fields(_)
Fields(s) ==
  IF s = <<>> THEN <<>>
  ELSE IF s[1] = " " THEN Fields(Tail(s))
  ELSE LET i == Index(s, " ")
       IN IF i = 0 THEN <<s>>
          ELSE <<SubSeq(s, 1, i - 1)>> \o Fields(SubSeq(s, i + 1, Len(s)))

\* a slip: a loop that stops before its upper limit
StepsExclusive(lo, hi, step) ==
  [k \in 1..(IF lo >= hi THEN 0 ELSE ((hi - 1 - lo) \div step) + 1) |->
     lo + (k - 1) * step]

\* for i := lo; i <= hi; i += step { vals = append(vals, i) }
Steps(lo, hi, step) ==
  [k \in 1..(IF lo > hi THEN 0 ELSE ((hi - lo) \div step) + 1) |->
     lo + (k - 1) * step]

\* what parsePart and parseField return: the values, or an error
Vals(vals) == [err |-> "", vals |-> vals]
Errorf(msg) == [err |-> msg, vals |-> <<>>]

parsePart(part, min, max) ==
  IF HasPrefix(part, <<"*", "/">>)
  THEN LET step == Atoi(SubSeq(part, 3, Len(part)))
       IN IF ~step.ok \/ step.val <= 0 THEN Errorf("invalid step")
          ELSE Vals(Steps(min, max, step.val))
  ELSE IF part = <<"*">>
  THEN Vals(Steps(min, max, 1))
  ELSE IF Contains(part, "-")
  THEN LET rangeParts == SplitN2(part, "/")
           bounds == SplitN2(rangeParts[1], "-")
           lo == Atoi(bounds[1])
           hi == Atoi(bounds[2])
           step == IF Len(rangeParts) = 2 THEN Atoi(rangeParts[2])
                   ELSE [ok |-> TRUE, val |-> 1]
       IN IF Len(bounds) # 2 THEN Errorf("invalid range")
          ELSE IF ~lo.ok THEN Errorf("invalid range start")
          ELSE IF ~hi.ok THEN Errorf("invalid range end")
          ELSE IF ~step.ok \/ step.val <= 0 THEN Errorf("invalid step")
          ELSE Vals(Steps(lo.val, hi.val, step.val))
  ELSE LET val == Atoi(part)
       IN IF ~val.ok THEN Errorf("invalid value")
          ELSE IF val.val < min \/ val.val > max THEN Errorf("value out of range")
          ELSE Vals(<<val.val>>)

\* the loop of parseField over the parts: the first error ends it
RECURSIVE parseParts(_, _, _)
parseParts(parts, min, max) ==
  IF parts = <<>> THEN Vals(<<>>)
  ELSE LET first == parsePart(Head(parts), min, max)
           rest == parseParts(Tail(parts), min, max)
       IN IF first.err # "" THEN first
          ELSE IF rest.err # "" THEN rest
          ELSE Vals(first.vals \o rest.vals)

parseField(field, min, max) == parseParts(Split(field, ","), min, max)

\* the five fields of an expression, in order, and their bounds
FieldNames == <<"minute", "hour", "day-of-month", "month", "day-of-week">>
FieldMin == <<0, 0, 1, 1, 0>>
FieldMax == <<59, 23, 31, 12, 6>>

\* a nil *CronExpr
NoCron == [Minutes |-> <<>>, Hours |-> <<>>, DaysOfMonth |-> <<>>,
           Months |-> <<>>, DaysOfWeek |-> <<>>]

\* a slip: surplus fields are ignored
FieldCountAtLeast(n) == n >= Len(FieldNames)

\* len(fields) != 5 is an error
FieldCount(n) == n = Len(FieldNames)

\* ParseCron: field is the field the error names, "" when it names none
ParseCron(expr) ==
  LET fields == Fields(expr)
      parsed == [i \in 1..Len(FieldNames) |->
                   parseField(fields[i], FieldMin[i], FieldMax[i])]
      failed == {i \in 1..Len(FieldNames) : parsed[i].err # ""}
      first == CHOOSE i \in failed : \A j \in failed : i <= j
  IN IF ~FieldCount(Len(fields))
     THEN [ok |-> FALSE, field |-> "", err |-> "cron expression must have 5 fields",
           cron |-> NoCron]
     ELSE IF failed # {}
     THEN [ok |-> FALSE, field |-> FieldNames[first], err |-> parsed[first].err,
           cron |-> NoCron]
     ELSE [ok |-> TRUE, field |-> "", err |-> "",
           cron |-> [Minutes |-> parsed[1].vals, Hours |-> parsed[2].vals,
                     DaysOfMonth |-> parsed[3].vals, Months |-> parsed[4].vals,
                     DaysOfWeek |-> parsed[5].vals]]

\* contains(vals, v)
contains(vals, v) == \E i \in 1..Len(vals) : vals[i] = v

\* a slip: day-of-month and day-of-week joined by OR, as classic cron does
MatchesDayOr(c, t) ==
  /\ contains(c.Minutes, t.minute)
  /\ contains(c.Hours, t.hour)
  /\ contains(c.Months, t.month)
  /\ contains(c.DaysOfMonth, t.day) \/ contains(c.DaysOfWeek, t.weekday)

\* CronExpr.Matches
Matches(c, t) ==
  /\ contains(c.Minutes, t.minute)
  /\ contains(c.Hours, t.hour)
  /\ contains(c.DaysOfMonth, t.day)
  /\ contains(c.Months, t.month)
  /\ contains(c.DaysOfWeek, t.weekday)


(***************************************************************************)
(* Expressions handed to the parser, and the calls made with them.         *)
(***************************************************************************)
\* strconv.Itoa: the decimal text of a number
RECURSIVE Itoa(_)
Itoa(n) ==
  IF n < 0 THEN <<"-">> \o Itoa(0 - n)
  ELSE IF n < 10 THEN <<Digits[n + 1]>>
  ELSE Itoa(n \div 10) \o <<Digits[(n % 10) + 1]>>

\* a token of a part: a number with its text, or a word that is no number
Number(n) == [text |-> Itoa(n), val |-> n, int |-> TRUE]
NotInt == [text |-> <<"x">>, val |-> 0, int |-> FALSE]
Tokens == {Number(n) : n \in {0 - 1, 0, 1, 2, 7, 15, 60}} \cup {NotInt}

\* the parts a field is made of: *, */s, a-b, a-b/s, a
Parts ==
  {[kind |-> "star", a |-> Number(0), b |-> Number(0), s |-> Number(1)]}
  \cup {[kind |-> "starstep", a |-> Number(0), b |-> Number(0), s |-> s] : s \in Tokens}
  \cup {[kind |-> "range", a |-> a, b |-> b, s |-> Number(1)] : a \in Tokens, b \in Tokens}
  \cup {[kind |-> "rangestep", a |-> a, b |-> b, s |-> s] :
          a \in Tokens, b \in Tokens, s \in Tokens}
  \cup {[kind |-> "single", a |-> a, b |-> Number(0), s |-> Number(1)] : a \in Tokens}

\* the parts that follow the first one in a list
MoreParts ==
  {p \in Parts :
     \/ p.kind = "star"
     \/ p.kind = "single" /\ p.a \in {Number(1), Number(60), NotInt}
     \/ p.kind = "starstep" /\ p.s \in {Number(0), Number(15)}
     \/ p.kind = "range" /\ p.a = Number(1) /\ p.b = Number(2)}

\* the text of a part
PartText(p) ==
  IF p.kind = "star" THEN <<"*">>
  ELSE IF p.kind = "starstep" THEN <<"*", "/">> \o p.s.text
  ELSE IF p.kind = "range" THEN p.a.text \o <<"-">> \o p.b.text
  ELSE IF p.kind = "rangestep" THEN p.a.text \o <<"-">> \o p.b.text \o <<"/">> \o p.s.text
  ELSE p.a.text

\* texts joined with a separator between them
RECURSIVE Join(_, _)
Join(texts, sep) ==
  IF texts = <<>> THEN <<>>
  ELSE IF Len(texts) = 1 THEN texts[1]
  ELSE texts[1] \o sep \o Join(Tail(texts), sep)

\* the text of a field made of the given parts
FieldText(parts) == Join([i \in 1..Len(parts) |-> PartText(parts[i])], <<",">>)

\* the expression with the given text as field pos and * as every other field
WithField(pos, text) ==
  Join([i \in 1..Len(FieldNames) |-> IF i = pos THEN text ELSE <<"*">>], <<" ">>)

\* the characters of a field written freely
CronChars == {"*", "/", "-", ",", "0", "1", "7", "x"}
FieldTexts == UNION {[1..n -> CronChars] : n \in 1..MaxFieldLen}

\* the field texts of an expression with several restricted fields
MatchFieldTexts == {<<"*">>, <<"0">>, <<"4">>, <<"1", "-", "2">>}

\* the times Matches is asked about
MatchTimes ==
  [minute : {0, 1}, hour : {3, 4}, day : {1, 2}, month : {1, 2}, weekday : {0, 1}]

\* expressions of the documentation
EveryQuarter == WithField(1, <<"*", "/", "1", "5">>)
DailyAtFour == Join(<<<<"0">>, <<"4">>, <<"*">>, <<"*">>, <<"*">>>>, <<" ">>)
MinuteSixty == WithField(1, <<"6", "0">>)
StepZero == WithField(1, <<"1", "-", "5", "/", "0">>)
Examples == {EveryQuarter, DailyAtFour, MinuteSixty, StepZero}

NoIntent == [kind |-> "none", pos |-> 0, parts |-> <<>>, n |-> 0]
NoResult == [ok |-> FALSE, field |-> "", err |-> "not called", cron |-> NoCron]
NoTime == [minute |-> 0 - 1, hour |-> 0 - 1, day |-> 0 - 1, month |-> 0 - 1,
           weekday |-> 0 - 1]
NoMatch == [t |-> NoTime, matched |-> FALSE]

\* no expression was written yet
Unwritten == cronIntent = NoIntent

\* an expression whose field pos is a list of parts
SubmitParts ==
  /\ Unwritten
  /\ \E pos \in 1..Len(FieldNames), first \in Parts, n \in 0..(MaxParts - 1) :
       \E more \in [1..n -> MoreParts] :
         /\ cronExpr' = WithField(pos, FieldText(<<first>> \o more))
         /\ cronIntent' = [kind |-> "parts", pos |-> pos,
                           parts |-> <<first>> \o more, n |-> Len(FieldNames)]
  /\ UNCHANGED <<cronResult, cronMatch, cpuVars, collectorVars, schedVars, consoleVars, apiVars>>

\* an expression whose field pos is any text
SubmitRaw ==
  /\ Unwritten
  /\ \E pos \in 1..Len(FieldNames), text \in FieldTexts :
       /\ cronExpr' = WithField(pos, text)
       /\ cronIntent' = [kind |-> "raw", pos |-> pos, parts |-> <<>>,
                         n |-> Len(FieldNames)]
  /\ UNCHANGED <<cronResult, cronMatch, cpuVars, collectorVars, schedVars, consoleVars, apiVars>>

\* an expression of n fields *, with one or two spaces between them and
\* possibly around them
SubmitCount ==
  /\ Unwritten
  /\ \E n \in 0..(Len(FieldNames) + 1), sep \in {<<" ">>, <<" ", " ">>},
        pad \in {<<>>, <<" ">>} :
       /\ cronExpr' = pad \o Join([i \in 1..n |-> <<"*">>], sep) \o pad
       /\ cronIntent' = [kind |-> "count", pos |-> 0, parts |-> <<>>, n |-> n]
  /\ UNCHANGED <<cronResult, cronMatch, cpuVars, collectorVars, schedVars, consoleVars, apiVars>>

\* an expression with every field restricted or not
SubmitFields ==
  /\ Unwritten
  /\ \E fields \in [1..Len(FieldNames) -> MatchFieldTexts] :
       /\ cronExpr' = Join(fields, <<" ">>)
       /\ cronIntent' = [kind |-> "fields", pos |-> 0, parts |-> <<>>,
                         n |-> Len(FieldNames)]
  /\ UNCHANGED <<cronResult, cronMatch, cpuVars, collectorVars, schedVars, consoleVars, apiVars>>

\* an expression of the documentation
SubmitExample ==
  /\ Unwritten
  /\ cronExpr' \in Examples
  /\ cronIntent' = [kind |-> "example", pos |-> 0, parts |-> <<>>,
                    n |-> Len(FieldNames)]
  /\ UNCHANGED <<cronResult, cronMatch, cpuVars, collectorVars, schedVars, consoleVars, apiVars>>

\* cron, err := ParseCron(expr)
Parse ==
  /\ ~Unwritten
  /\ cronResult = NoResult
  /\ cronResult' = ParseCron(cronExpr)
  /\ UNCHANGED <<cronExpr, cronIntent, cronMatch, cpuVars, collectorVars, schedVars, consoleVars, apiVars>>

\* cron.Matches(t) on what ParseCron accepted
Match ==
  /\ cronResult.ok
  /\ cronMatch = NoMatch
  /\ \E t \in MatchTimes :
       cronMatch' = [t |-> t, matched |-> Matches(cronResult.cron, t)]
  /\ UNCHANGED <<cronExpr, cronIntent, cronResult, cpuVars, collectorVars, schedVars, consoleVars, apiVars>>


(***************************************************************************)
(* The scheduler (package scheduler): the goroutine of Scheduler.Start,    *)
(* which sleeps to the next minute of the wall clock and runs tick, and    *)
(* tick split at the store query, each capability call and each stamp.     *)
(* The timer counts elapsed time; the wall clock may also be set back.     *)
(***************************************************************************)
\* resolution of the modelled wall clock
TicksPerMinute == 2

\* the last tick of the wall clock explored
MaxWall == MaxMinutes * TicksPerMinute + 1

\* now.Truncate(time.Minute), as a minute count
MinuteOf(w) == w \div TicksPerMinute

\* the fields of a time Matches reads; tick 0 is 00:00 on the first day of
\* month 1, a day of week 0
TimeOf(w) ==
  [minute |-> MinuteOf(w) % 60, hour |-> (MinuteOf(w) \div 60) % 24, day |-> 1,
   month |-> 1, weekday |-> 0]

\* last_run of a schedule that never ran (NULL)
NeverRun == 0 - 1

\* expressions stored in schedules: every minute, minute 1 of every hour,
\* and one that ParseCron rejects
EveryMinute == WithField(1, <<"*">>)
MinuteOne == WithField(1, <<"1">>)
NotCron == <<"x">>

\* what the stored schedules ask for: an expression, a server and an action
Plans ==
  {[cron_expr |-> EveryMinute, server_id |-> Targets[1], action |-> "stop"],
   [cron_expr |-> MinuteOne, server_id |-> Targets[1], action |-> "start"],
   [cron_expr |-> MinuteOne, server_id |-> Targets[2], action |-> "restart"],
   [cron_expr |-> NotCron, server_id |-> Targets[2], action |-> "backup"]}

\* the rows the table may hold, before any run
ScheduleRows ==
  {[server_id |-> p.server_id, cron_expr |-> p.cron_expr, action |-> p.action,
    enabled |-> e, last_run |-> NeverRun] : p \in Plans, e \in BOOLEAN}

\* a slip: the query without its WHERE clause
ListAll(table) == [i \in 1..Len(table) |-> i]

\* SELECT ... FROM schedules s JOIN servers srv ... WHERE s.enabled = 1: the
\* ids of the rows, in table order
ListEnabled(table) ==
  SelectSeq([i \in 1..Len(table) |-> i], LAMBDA i : table[i].enabled)

\* cron parses and cron.Matches(now): the job is to be dispatched
Due(cron_expr, t) ==
  LET cron == ParseCron(cron_expr) IN cron.ok /\ Matches(cron.cron, TimeOf(t))

\* a slip: the next job is taken up while the call is still running
AfterDispatchAsync == "stamp"

\* where tick is after it called execute: waiting for the call to return
AfterDispatch == "call"

\* a slip: last_run taken from the clock when the action has completed
StampAtCompletion(started, completed) == completed

\* the value written to last_run by a pass that started at started, at a
\* moment when the clock reads completed
Stamp(started, completed) == started

\* no call has returned since tick moved on
NoCallErr == [call |-> [scheduleID |-> 0, serverID |-> "", action |-> "", ctxDone |-> FALSE],
              failed |-> FALSE]

\* a slip: the pass is given up after its first job
SpcForFirstOnly(rest) == "compute"

\* where the loop goes once the jobs in rest are left
SpcFor(rest) == IF rest = <<>> THEN "compute" ELSE "evaluate"

\* the schedules table as the scheduler finds it: the schema takes any text
\* as cron_expr, and the file may predate the checks of the handlers
CreateSchedules ==
  /\ spc = "none"
  /\ schedules = <<>>
  /\ schedules' \in [1..MaxSchedules -> ScheduleRows]
  /\ UNCHANGED <<wall, skews, spc, schedCancelled, sleepLeft, tickNow, jobs, inflight,
                 passes, loaded, dispatched>>
  /\ UNCHANGED <<callErr, overrun, collectorVars, cpuVars, cronVars, consoleVars, apiVars>>

\* Scheduler.Start, called once by the server
SchedulerStart ==
  /\ spc = "none"
  /\ spc' = "compute"
  /\ UNCHANGED <<schedules, wall, skews, schedCancelled, sleepLeft, tickNow, jobs,
                 inflight, passes, loaded, dispatched>>
  /\ UNCHANGED <<callErr, overrun, collectorVars, cpuVars, cronVars, consoleVars, apiVars>>

\* a slip: a loop that looks at the context only at its top
SchedulerStopUnheard ==
  /\ spc # "none"
  /\ ~schedCancelled
  /\ schedCancelled' = TRUE
  /\ UNCHANGED <<schedules, wall, skews, spc, sleepLeft, tickNow, jobs, inflight,
                 passes, loaded, dispatched>>
  /\ UNCHANGED <<callErr, overrun, collectorVars, cpuVars, cronVars, consoleVars, apiVars>>

\* Scheduler.Stop: the context is cancelled; a loop sleeping on a timer that
\* has not fired wakes with the Done case
SchedulerStop ==
  /\ spc # "none"
  /\ ~schedCancelled
  /\ schedCancelled' = TRUE
  /\ spc' = IF spc = "sleep" /\ sleepLeft > 0 THEN "done" ELSE spc
  /\ UNCHANGED <<schedules, wall, skews, sleepLeft, tickNow, jobs, inflight, passes,
                 loaded, dispatched>>
  /\ UNCHANGED <<callErr, overrun, collectorVars, cpuVars, cronVars, consoleVars, apiVars>>

\* the loop is inside tick
InPass == spc \in {"query", "evaluate", "call", "stamp"}

\* time passes: the wall clock and the timer advance together
Tock ==
  /\ wall < MaxWall
  /\ wall' = wall + 1
  /\ sleepLeft' = IF sleepLeft > 0 THEN sleepLeft - 1 ELSE 0
  /\ overrun' = IF InPass /\ MinuteOf(wall') # MinuteOf(wall)
                THEN overrun \cup {MinuteOf(wall')}
                ELSE overrun
  /\ UNCHANGED <<schedules, skews, spc, schedCancelled, tickNow, jobs, inflight, passes,
                 loaded, dispatched>>
  /\ UNCHANGED <<callErr, collectorVars, cpuVars, cronVars, consoleVars, apiVars>>

\* the wall clock is set back one tick; the timer is not affected
ClockBack ==
  /\ skews < MaxSkews
  /\ wall > 0
  /\ wall' = wall - 1
  /\ skews' = skews + 1
  /\ UNCHANGED <<schedules, spc, schedCancelled, sleepLeft, tickNow, jobs, inflight,
                 passes, loaded, dispatched>>
  /\ UNCHANGED <<callErr, overrun, collectorVars, cpuVars, cronVars, consoleVars, apiVars>>

\* a slip: a loop that is on a minute boundary does not sleep
UntilMinuteOrNow(w) == (TicksPerMinute - (w % TicksPerMinute)) % TicksPerMinute

\* time.Until(now.Truncate(time.Minute).Add(time.Minute)): the ticks to the
\* first minute boundary after w
UntilNextMinute(w) == (MinuteOf(w) + 1) * TicksPerMinute - w

\* the top of the loop: the sleep to the next minute is computed and the
\* select is entered; with the context cancelled it returns at once
Sleep ==
  /\ spc = "compute"
  /\ IF schedCancelled
     THEN /\ spc' = "done"
          /\ UNCHANGED sleepLeft
     ELSE /\ spc' = "sleep"
          /\ sleepLeft' = UntilNextMinute(wall)
  /\ UNCHANGED <<schedules, wall, skews, schedCancelled, tickNow, jobs, inflight, passes,
                 loaded, dispatched>>
  /\ UNCHANGED <<callErr, overrun, collectorVars, cpuVars, cronVars, consoleVars, apiVars>>

\* the timer has fired: tick starts and reads the clock
Wake ==
  /\ spc = "sleep"
  /\ sleepLeft = 0
  /\ spc' = "query"
  /\ tickNow' = wall
  /\ passes' = passes \cup {MinuteOf(wall)}
  /\ loaded' = <<>>
  /\ dispatched' = <<>>
  /\ UNCHANGED <<schedules, wall, skews, schedCancelled, sleepLeft, jobs, inflight>>
  /\ UNCHANGED <<callErr, overrun, collectorVars, cpuVars, cronVars, consoleVars, apiVars>>

\* the query for the enabled schedules; an error ends the pass
ListSchedules(ok) ==
  /\ spc = "query"
  /\ IF ok
     THEN /\ jobs' = [k \in 1..Len(ListEnabled(schedules)) |->
                        [scheduleID |-> ListEnabled(schedules)[k],
                         serverID |-> schedules[ListEnabled(schedules)[k]].server_id,
                         cronExpr |-> schedules[ListEnabled(schedules)[k]].cron_expr,
                         action |-> schedules[ListEnabled(schedules)[k]].action]]
          /\ loaded' = ListEnabled(schedules)
          /\ spc' = SpcFor(ListEnabled(schedules))
     ELSE /\ jobs' = <<>>
          /\ spc' = "compute"
          /\ UNCHANGED loaded
  /\ UNCHANGED <<schedules, wall, skews, schedCancelled, sleepLeft, tickNow, inflight,
                 passes, dispatched>>
  /\ UNCHANGED <<callErr, overrun, collectorVars, cpuVars, cronVars, consoleVars, apiVars>>

\* the head job: a bad expression or a time that does not match skips it,
\* otherwise execute is called
Evaluate ==
  LET j == Head(jobs) IN
  /\ spc = "evaluate"
  /\ IF Due(j.cronExpr, tickNow)
     THEN /\ inflight' = inflight \cup
                {[scheduleID |-> j.scheduleID, serverID |-> j.serverID,
                  action |-> j.action, ctxDone |-> schedCancelled]}
          /\ dispatched' = Append(dispatched, j.scheduleID)
          /\ spc' = AfterDispatch
          /\ UNCHANGED jobs
     ELSE /\ jobs' = Tail(jobs)
          /\ spc' = SpcFor(Tail(jobs))
          /\ UNCHANGED <<inflight, dispatched>>
  /\ UNCHANGED <<schedules, wall, skews, schedCancelled, sleepLeft, tickNow, passes, loaded>>
  /\ UNCHANGED <<callErr, overrun, collectorVars, cpuVars, cronVars, consoleVars, apiVars>>

\* a capability call returns; a docker call made with a cancelled context
\* fails; on success execute records the new status
Return(ok) ==
  /\ \E call \in inflight :
       /\ ok => (~call.ctxDone \/ call.action = "backup")
       /\ inflight' = inflight \ {call}
       /\ status' = [status EXCEPT ![call.serverID] =
                       execute(call.action, ok, status[call.serverID])]
       /\ callErr' = [call |-> call, failed |-> ~ok]
  /\ spc' = IF spc = "call" THEN "stamp" ELSE spc
  /\ UNCHANGED <<schedules, wall, skews, schedCancelled, sleepLeft, tickNow, jobs, passes,
                 loaded, dispatched>>
  /\ UNCHANGED <<overrun, telemetryVars, cpuVars, cronVars, consoleVars, apiVars>>

\* UPDATE schedules SET last_run = now; an error is ignored
StampLastRun(ok) ==
  LET j == Head(jobs) IN
  /\ spc = "stamp"
  /\ IF ok
     THEN schedules' = [schedules EXCEPT ![j.scheduleID].last_run = Stamp(tickNow, wall)]
     ELSE UNCHANGED schedules
  /\ jobs' = Tail(jobs)
  /\ spc' = SpcFor(Tail(jobs))
  /\ UNCHANGED <<wall, skews, schedCancelled, sleepLeft, tickNow, inflight, passes, loaded,
                 dispatched>>
  /\ callErr' = NoCallErr
  /\ UNCHANGED <<overrun, collectorVars, cpuVars, cronVars, consoleVars, apiVars>>


(***************************************************************************)
(* The console session (ConsoleHandler.Handle): the handler's goroutine,   *)
(* which resolves and inspects the container, upgrades the connection,     *)
(* opens the log stream and the attach handle and then pumps the log       *)
(* stream to the client, and the goroutine it starts, which pumps the      *)
(* client's messages to the container's input.                             *)
(***************************************************************************)
\* header := make([]byte, 8)
HeaderLen == 8

\* buf := make([]byte, 4096)
BufSize == 4096

\* '\n'
LF == 10

\* the first n elements of s, and s without them
Take(s, n) == SubSeq(s, 1, n)
Drop(s, n) == SubSeq(s, n + 1, Len(s))

\* the concatenation of the sequences in ss
RECURSIVE Flatten(_)
Flatten(ss) == IF ss = <<>> THEN <<>> ELSE Head(ss) \o Flatten(Tail(ss))

\* the payload bytes the container wrote as its k-th frame, n bytes long
PayloadOf(k, n) == [i \in 1..n |-> 16 * k + i]

\* the four size bytes of a header, big-endian
SizeBytes(n) ==
  <<(n \div 16777216) % 256, (n \div 65536) % 256, (n \div 256) % 256, n % 256>>

\* the size a frame declares: its length, or for a frame said to be big one
\* that takes more bytes than any stream explored holds
Declared(f) == IF f.big THEN 256 ELSE f.len

\* the header Docker puts before the k-th frame: [stream_type, 0, 0, 0, size]
HeaderOf(k, f) == <<((k - 1) % 2) + 1, 0, 0, 0>> \o SizeBytes(Declared(f))

\* the multiplexed stream of the frames fs, the first of them being the k-th
RECURSIVE Mux(_, _)
Mux(fs, k) ==
  IF fs = <<>> THEN <<>>
  ELSE HeaderOf(k, Head(fs)) \o
       (IF Head(fs).big THEN <<>> ELSE PayloadOf(k, Head(fs).len)) \o
       Mux(Tail(fs), k + 1)

\* what a container can have written: frames of up to MaxPayload bytes, or
\* the header of a big frame
FrameSet == [len : 0..MaxPayload, big : {FALSE}] \cup [len : {0}, big : {TRUE}]
Intents == UNION {[1..n -> FrameSet] : n \in 0..MaxFrames}

\* the longest stream of the frames explored
MaxStream == MaxFrames * (HeaderLen + MaxPayload)

\* the bytes a TTY container can have written
RawBytes == [i \in 1..(MaxFrames * (MaxPayload + 1)) |-> 64 + i]

\* how a log stream goes on after its bytes: it stays open and silent, it
\* ends, or reading it fails
Ends == {"follow", "eof", "err"}

\* the messages a client sends, and the sequences of them explored
Msgs == {<<>>, <<97>>, <<98, LF>>}
Scripts == UNION {[1..n -> Msgs] : n \in 0..MaxMsgs}

\* a slip: only the last size byte is read
LowByte(b) == b[4]

\* binary.BigEndian.Uint32(header[4:8])
BigEndianUint32(b) == ((b[1] * 256 + b[2]) * 256 + b[3]) * 256 + b[4]

\* a slip: the handler goes on to the upgrade after an error
AfterRefusalUpgrade == "upgrade"

\* where the handler is after it answered with an error: it has returned
AfterRefusal == "done"

\* a slip: the message written without a terminator
StdinLineBare(m) == m

\* append(msg, '\n')
StdinLine(m) == Append(m, LF)

\* the err of io.ReadFull that found the stream ended after got bytes
ReadFullErr(got, end) ==
  IF end = "err" THEN "error"
  ELSE IF got = 0 THEN "eof"
  ELSE "error"

\* no session: nothing requested yet
NoFrames == <<>>

\* a request for the console of a non-TTY container whose log stream holds
\* the first bytes of some frames
HandleNonTTY ==
  /\ hpc = "idle"
  /\ hpc' = "resolve"
  /\ tty' = FALSE
  /\ frames' \in Intents
  /\ cut' \in 0..MaxStream
  /\ cut' <= Len(Mux(frames', 1))
  /\ logBuf' = Take(Mux(frames', 1), cut')
  /\ logEnd' \in Ends
  /\ clientMsgs' = <<>>
  /\ UNCHANGED <<response, upgraded, connState, clientGone, logState, attachState, size,
                 payload, readErr, outEnd, forwarded, readBytes, ipc, inMsg, received, stdin>>
  /\ UNCHANGED <<collectorVars, cpuVars, cronVars, schedVars, apiVars>>

\* a request for the console of a TTY container whose log stream holds raw
\* bytes
HandleTTY ==
  /\ hpc = "idle"
  /\ hpc' = "resolve"
  /\ tty' = TRUE
  /\ frames' = NoFrames
  /\ cut' \in 0..Len(RawBytes)
  /\ logBuf' = Take(RawBytes, cut')
  /\ logEnd' \in Ends
  /\ clientMsgs' = <<>>
  /\ UNCHANGED <<response, upgraded, connState, clientGone, logState, attachState, size,
                 payload, readErr, outEnd, forwarded, readBytes, ipc, inMsg, received, stdin>>
  /\ UNCHANGED <<collectorVars, cpuVars, cronVars, schedVars, apiVars>>

\* a request for the console by a client that is going to send messages; the
\* container writes nothing
HandleInput ==
  /\ hpc = "idle"
  /\ hpc' = "resolve"
  /\ tty' \in BOOLEAN
  /\ frames' = NoFrames
  /\ cut' = 0
  /\ logBuf' = <<>>
  /\ logEnd' \in Ends
  /\ clientMsgs' \in Scripts
  /\ UNCHANGED <<response, upgraded, connState, clientGone, logState, attachState, size,
                 payload, readErr, outEnd, forwarded, readBytes, ipc, inMsg, received, stdin>>
  /\ UNCHANGED <<collectorVars, cpuVars, cronVars, schedVars, apiVars>>

\* SELECT container_id FROM servers WHERE id = ?; an error is answered 404
Resolve(ok) ==
  /\ hpc = "resolve"
  /\ IF ok
     THEN /\ hpc' = "inspect"
          /\ UNCHANGED response
     ELSE /\ hpc' = AfterRefusal
          /\ response' = "404"
  /\ UNCHANGED <<upgraded, connState, clientGone, tty, logState, attachState, logBuf,
                 logEnd, size, payload, readErr, outEnd, forwarded, readBytes, frames,
                 cut, ipc, inMsg, clientMsgs, received, stdin>>
  /\ UNCHANGED <<collectorVars, cpuVars, cronVars, schedVars, apiVars>>

\* h.docker.InspectContainer; an error is answered 500
Inspect(ok) ==
  /\ hpc = "inspect"
  /\ IF ok
     THEN /\ hpc' = "upgrade"
          /\ UNCHANGED response
     ELSE /\ hpc' = AfterRefusal
          /\ response' = "500"
  /\ UNCHANGED <<upgraded, connState, clientGone, tty, logState, attachState, logBuf,
                 logEnd, size, payload, readErr, outEnd, forwarded, readBytes, frames,
                 cut, ipc, inMsg, clientMsgs, received, stdin>>
  /\ UNCHANGED <<collectorVars, cpuVars, cronVars, schedVars, apiVars>>

\* upgrader.Upgrade; on an error the upgrader has answered and Handle returns
Upgrade(ok) ==
  /\ hpc = "upgrade"
  /\ IF ok
     THEN /\ hpc' = "logs"
          /\ upgraded' = TRUE
          /\ connState' = "open"
          /\ UNCHANGED response
     ELSE /\ hpc' = "done"
          /\ response' = IF response = "none" THEN "400" ELSE response
          /\ UNCHANGED <<upgraded, connState>>
  /\ UNCHANGED <<clientGone, tty, logState, attachState, logBuf, logEnd, size, payload,
                 readErr, outEnd, forwarded, readBytes, frames, cut, ipc, inMsg, clientMsgs,
                 received, stdin>>
  /\ UNCHANGED <<collectorVars, cpuVars, cronVars, schedVars, apiVars>>

\* h.docker.ContainerLogs; an error is written to the client and Handle
\* returns
OpenLogs(ok) ==
  /\ hpc = "logs"
  /\ IF ok
     THEN /\ hpc' = "attach"
          /\ logState' = "open"
          /\ UNCHANGED response
     ELSE /\ hpc' = "return"
          /\ response' = "logs error"
          /\ UNCHANGED logState
  /\ UNCHANGED <<upgraded, connState, clientGone, tty, attachState, logBuf, logEnd, size,
                 payload, readErr, outEnd, forwarded, readBytes, frames, cut, ipc, inMsg,
                 clientMsgs, received, stdin>>
  /\ UNCHANGED <<collectorVars, cpuVars, cronVars, schedVars, apiVars>>

\* h.docker.ContainerAttach; with a connection the inbound goroutine is
\* started, an error is only logged
Attach(ok) ==
  /\ hpc = "attach"
  /\ hpc' = "read"
  /\ IF ok
     THEN /\ attachState' = "open"
          /\ ipc' = "read"
     ELSE UNCHANGED <<attachState, ipc>>
  /\ UNCHANGED <<response, upgraded, connState, clientGone, tty, logState, logBuf, logEnd,
                 size, payload, readErr, outEnd, forwarded, readBytes, frames, cut, inMsg,
                 clientMsgs, received, stdin>>
  /\ UNCHANGED <<collectorVars, cpuVars, cronVars, schedVars, apiVars>>

\* a slip: err looked at before the bytes of the same Read
AfterReadErrFirst(n, e) == IF e # "nil" THEN "return" ELSE "write"

\* TTY mode, after n, err := logReader.Read(buf): n > 0 bytes are written
\* before err is looked at
AfterRead(n, e) == IF n > 0 THEN "write" ELSE "return"

\* TTY mode: logReader.Read(buf) returns some of the bytes at hand, with the
\* end of the stream reported by the same call or by a later one; it blocks
\* on a stream that is open and silent
ReadLog ==
  /\ hpc = "read"
  /\ tty
  /\ ~(logBuf = <<>> /\ logEnd = "follow")
  /\ \E n \in 0..Len(logBuf), e \in {"nil", "eof", "err"} :
       /\ n <= BufSize
       /\ (n = 0) = (logBuf = <<>>)
       /\ e # "nil" => n = Len(logBuf) /\ logEnd = e
       /\ n = 0 => e # "nil"
       /\ payload' = Take(logBuf, n)
       /\ logBuf' = Drop(logBuf, n)
       /\ readBytes' = readBytes \o Take(logBuf, n)
       /\ readErr' = e
       /\ hpc' = AfterRead(n, e)
       /\ IF hpc' = "write"
          THEN UNCHANGED outEnd
          ELSE outEnd' = IF e = "eof" THEN "eof" ELSE "error"
  /\ UNCHANGED <<response, upgraded, connState, clientGone, tty, logState, attachState,
                 logEnd, size, forwarded, frames, cut, ipc, inMsg, clientMsgs, received,
                 stdin>>
  /\ UNCHANGED <<collectorVars, cpuVars, cronVars, schedVars, apiVars>>

\* non-TTY mode: io.ReadFull(logReader, header); a frame of size 0 is
\* skipped; a stream that ends before the header is full ends the pump
ReadHeader ==
  /\ hpc = "read"
  /\ ~tty
  /\ IF Len(logBuf) >= HeaderLen
     THEN /\ size' = BigEndianUint32(SubSeq(logBuf, 5, 8))
          /\ logBuf' = Drop(logBuf, HeaderLen)
          /\ readBytes' = readBytes \o Take(logBuf, HeaderLen)
          /\ hpc' = IF size' = 0 THEN "read" ELSE "payload"
          /\ UNCHANGED outEnd
     ELSE /\ logEnd # "follow"
          /\ logBuf' = <<>>
          /\ readBytes' = readBytes \o logBuf
          /\ hpc' = "return"
          /\ outEnd' = ReadFullErr(Len(logBuf), logEnd)
          /\ UNCHANGED size
  /\ UNCHANGED <<response, upgraded, connState, clientGone, tty, logState, attachState,
                 logEnd, payload, readErr, forwarded, frames, cut, ipc, inMsg, clientMsgs,
                 received, stdin>>
  /\ UNCHANGED <<collectorVars, cpuVars, cronVars, schedVars, apiVars>>

\* io.ReadFull(logReader, payload) for a payload of size bytes
ReadPayload ==
  /\ hpc = "payload"
  /\ IF Len(logBuf) >= size
     THEN /\ payload' = Take(logBuf, size)
          /\ logBuf' = Drop(logBuf, size)
          /\ readBytes' = readBytes \o Take(logBuf, size)
          /\ hpc' = "write"
          /\ UNCHANGED outEnd
     ELSE /\ logEnd # "follow"
          /\ logBuf' = <<>>
          /\ readBytes' = readBytes \o logBuf
          /\ hpc' = "return"
          /\ outEnd' = ReadFullErr(Len(logBuf), logEnd)
          /\ UNCHANGED payload
  /\ UNCHANGED <<response, upgraded, connState, clientGone, tty, logState, attachState,
                 logEnd, size, readErr, forwarded, frames, cut, ipc, inMsg, clientMsgs,
                 received, stdin>>
  /\ UNCHANGED <<collectorVars, cpuVars, cronVars, schedVars, apiVars>>

\* conn.WriteMessage(websocket.TextMessage, ...) of the chunk or the payload;
\* a write error ends the pump, and so does, in TTY mode, the err of the Read
\* that gave the chunk
WriteMessage(ok) ==
  /\ hpc = "write"
  /\ IF ok
     THEN /\ forwarded' = Append(forwarded, payload)
          /\ IF tty /\ readErr # "nil"
             THEN /\ hpc' = "return"
                  /\ outEnd' = IF readErr = "eof" THEN "eof" ELSE "error"
             ELSE /\ hpc' = "read"
                  /\ UNCHANGED outEnd
     ELSE /\ hpc' = "return"
          /\ outEnd' = "write"
          /\ UNCHANGED forwarded
  /\ payload' = <<>>
  /\ UNCHANGED <<response, upgraded, connState, clientGone, tty, logState, attachState,
                 logBuf, logEnd, size, readErr, readBytes, frames, cut, ipc, inMsg,
                 clientMsgs, received, stdin>>
  /\ UNCHANGED <<collectorVars, cpuVars, cronVars, schedVars, apiVars>>

\* Handle returns after the upgrade: the deferred attach.Close,
\* logReader.Close and conn.Close run
Deferred ==
  /\ hpc = "return"
  /\ hpc' = "done"
  /\ attachState' = IF attachState = "open" THEN "closed" ELSE attachState
  /\ logState' = IF logState = "open" THEN "closed" ELSE logState
  /\ connState' = "closed"
  /\ UNCHANGED <<response, upgraded, clientGone, tty, logBuf, logEnd, size, payload,
                 readErr, outEnd, forwarded, readBytes, frames, cut, ipc, inMsg, clientMsgs,
                 received, stdin>>
  /\ UNCHANGED <<collectorVars, cpuVars, cronVars, schedVars, apiVars>>

\* the inbound goroutine: conn.ReadMessage gives the next message of the
\* client, fails on a connection that Handle closed or that the client left,
\* and blocks otherwise
ReadMessage ==
  /\ ipc = "read"
  /\ IF connState = "closed"
     THEN /\ ipc' = "done"
          /\ UNCHANGED <<inMsg, clientMsgs, received>>
     ELSE IF clientMsgs # <<>>
     THEN /\ ipc' = "write"
          /\ inMsg' = Head(clientMsgs)
          /\ clientMsgs' = Tail(clientMsgs)
          /\ received' = Append(received, Head(clientMsgs))
     ELSE /\ clientGone
          /\ ipc' = "done"
          /\ UNCHANGED <<inMsg, clientMsgs, received>>
  /\ UNCHANGED <<hpc, response, upgraded, connState, clientGone, tty, logState,
                 attachState, logBuf, logEnd, size, payload, readErr, outEnd, forwarded,
                 readBytes, frames, cut, stdin>>
  /\ UNCHANGED <<collectorVars, cpuVars, cronVars, schedVars, apiVars>>

\* the inbound goroutine: attach.Conn.Write(append(msg, '\n')); its error is
\* not looked at; a write on a closed attach handle fails
WriteStdin(ok) ==
  /\ ipc = "write"
  /\ ok => attachState = "open"
  /\ stdin' = IF ok THEN stdin \o StdinLine(inMsg) ELSE stdin
  /\ inMsg' = <<>>
  /\ ipc' = "read"
  /\ UNCHANGED <<hpc, response, upgraded, connState, clientGone, tty, logState,
                 attachState, logBuf, logEnd, size, payload, readErr, outEnd, forwarded,
                 readBytes, frames, cut, clientMsgs, received>>
  /\ UNCHANGED <<collectorVars, cpuVars, cronVars, schedVars, apiVars>>

\* the client goes away
ClientClose ==
  /\ connState = "open"
  /\ ~clientGone
  /\ clientGone' = TRUE
  /\ UNCHANGED <<hpc, response, upgraded, connState, tty, logState, attachState, logBuf,
                 logEnd, size, payload, readErr, outEnd, forwarded, readBytes, frames,
                 cut, ipc, inMsg, clientMsgs, received, stdin>>
  /\ UNCHANGED <<collectorVars, cpuVars, cronVars, schedVars, apiVars>>

(***************************************************************************)
(* StatsHandler.Live: one WebSocket session of the live statistics feed.   *)
(* A session is upgraded, subscribes a conduit for its server, writes the  *)
(* cached sample if there is one, then forwards what the conduit delivers  *)
(* until the client is gone or a write fails; Unsubscribe is deferred.     *)
(***************************************************************************)
Sessions == 1..MaxSessions

\* a session that has not been requested
NoSession == [pc |-> "none", srv |-> "", ch |-> 0]

\* what the rest of a session leaves alone
liveFrame == <<cpuVars, cronVars, schedVars, consoleVars, logins, consoleReq, liveReq,
               restoreVars, schedReq>>

\* a write error makes Live return without the deferred call
AfterWriteNoDefer(ok) == IF ok THEN "pump" ELSE "done"

\* where Live goes after conn.WriteJSON: on, or to the deferred calls
AfterWrite(ok) == IF ok THEN "pump" ELSE "defer"

\* upgrader.Upgrade: a failure is logged and Live returns
Live(s, t, ok) ==
  /\ ~panicked
  /\ live[s].pc = "none"
  /\ live' = [live EXCEPT ![s] = [pc |-> IF ok THEN "subscribe" ELSE "done",
                                  srv |-> t, ch |-> 0]]
  /\ UNCHANGED <<collectorVars, liveFrame>>

\* sessions are numbered in the order in which they are requested, and all
\* but the last are for the first server
LiveInOrder(s, t, ok) ==
  /\ \A o \in 1..(s - 1) : live[o].pc # "none"
  /\ s < MaxSessions => t = Targets[1]
  /\ Live(s, t, ok)

\* ch := h.collector.Subscribe(serverID)
LiveSubscribe(s) ==
  /\ live[s].pc = "subscribe"
  /\ SubscribeCall(live[s].srv)
  /\ live' = [live EXCEPT ![s].ch = nextChan, ![s].pc = "latest"]
  /\ UNCHANGED liveFrame

\* the cached sample, if there is one, is written at once
LiveLatest(s, ok) ==
  /\ ~panicked
  /\ live[s].pc = "latest"
  /\ mu = 0
  /\ IF latest[live[s].srv] # NoStats
     THEN live' = [live EXCEPT ![s].pc = AfterWrite(ok)]
     ELSE /\ ok
          /\ live' = [live EXCEPT ![s].pc = "pump"]
  /\ UNCHANGED <<collectorVars, liveFrame>>

\* case s, ok := <-ch with a sample: conn.WriteJSON(s)
LiveForward(s, ok) ==
  /\ live[s].pc = "pump"
  /\ ReceiveCall(live[s].ch)
  /\ live' = [live EXCEPT ![s].pc = AfterWrite(ok)]
  /\ UNCHANGED liveFrame

\* case <-done, the client is gone, or ch is closed and empty: return
LiveReturn(s) ==
  /\ ~panicked
  /\ live[s].pc = "pump"
  /\ live' = [live EXCEPT ![s].pc = "defer"]
  /\ UNCHANGED <<collectorVars, liveFrame>>

\* the deferred h.collector.Unsubscribe(serverID, ch) and conn.Close()
LiveDeferred(s) ==
  /\ live[s].pc = "defer"
  /\ UnsubscribeCall(live[s].srv, live[s].ch)
  /\ live' = [live EXCEPT ![s].pc = "done"]
  /\ UNCHANGED liveFrame

(***************************************************************************)
(* Login sessions and the routes of the two WebSocket endpoints.  The      *)
(* protected group of routes runs AuthMiddleware before its handlers; the  *)
(* console and the live-stats routes are registered outside that group,    *)
(* and neither handler reads the token parameter of the query.             *)
(***************************************************************************)
\* the tokens a login has issued or a client makes up
LoginTokens == {"t1"}

\* the token parameter of a request, "" when it has none
QueryTokens == LoginTokens \cup {""}

\* a request that has not arrived
NoReq == [arrived |-> FALSE, token |-> "", valid |-> FALSE]

\* auth.Service.ValidateSession: a row with this token that is not past its
\* expires_at
ValidateSession(token) == token \in LoginTokens /\ logins[token] = "row"

\* what the rest of a login or of a dispatch leaves alone
authFrame == <<collectorVars, cpuVars, cronVars, schedVars, consoleVars, restoreVars,
               schedReq>>

\* auth.Service.Login with good credentials: a row with a new token
Login(token) ==
  /\ logins[token] = "none"
  /\ logins' = [logins EXCEPT ![token] = "row"]
  /\ UNCHANGED <<live, consoleReq, liveReq, authFrame>>

\* the time passes the expires_at of a row
SessionExpires(token) ==
  /\ logins[token] = "row"
  /\ logins' = [logins EXCEPT ![token] = "expired"]
  /\ UNCHANGED <<live, consoleReq, liveReq, authFrame>>

\* auth.Service.Logout: DELETE FROM sessions WHERE token = ?
Logout(token) ==
  /\ logins[token] # "none"
  /\ logins' = [logins EXCEPT ![token] = "none"]
  /\ UNCHANGED <<live, consoleReq, liveReq, authFrame>>

\* the router dispatches GET /servers/{id}/console?token=... to
\* consoleHandler.Handle; what ValidateSession says of the token at this
\* moment is kept with the request
DispatchConsole(token) ==
  /\ ~consoleReq.arrived
  /\ hpc = "idle"
  /\ consoleReq' = [arrived |-> TRUE, token |-> token, valid |-> ValidateSession(token)]
  /\ UNCHANGED <<live, logins, liveReq, authFrame>>

\* the router dispatches GET /servers/{id}/stats/live?token=... to
\* statsHandler.Live
DispatchLive(s, token) ==
  /\ ~liveReq[s].arrived
  /\ live[s].pc = "none"
  /\ liveReq' = [liveReq EXCEPT ![s] =
                   [arrived |-> TRUE, token |-> token, valid |-> ValidateSession(token)]]
  /\ UNCHANGED <<live, logins, consoleReq, authFrame>>

(***************************************************************************)
(* BackupHandler.Restore and backup.Service.Restore: the stored status is  *)
(* read once, then the data directory is removed, made anew and filled     *)
(* from the archive.  No lock or transaction spans these steps.            *)
(***************************************************************************)
\* no restore request is being handled
NoRestore == [pc |-> "idle", srv |-> "", resp |-> "none"]

\* what the rest of a restore leaves alone
restoreFrame == <<collectorVars, cpuVars, cronVars, schedVars, consoleVars, live, logins,
                  consoleReq, liveReq, schedReq>>

\* where Restore goes after reading the stored status
AfterStatusCheck(st) == IF st = "running" THEN "done" ELSE "path"

\* the answer of Restore after reading the stored status
StatusAnswer(st) == IF st = "running" THEN "409" ELSE "none"

\* POST /servers/{id}/backups/{backupId}/restore
Restore(t) ==
  /\ restore.pc \in {"idle", "done"}
  /\ restore' = [pc |-> "check", srv |-> t, resp |-> "none"]
  /\ UNCHANGED <<dataDir, restoreFrame>>

\* SELECT status FROM servers WHERE id = ?; an error is answered 404, a
\* running server 409
RestoreCheck(ok) ==
  /\ restore.pc = "check"
  /\ IF ok
     THEN restore' = [restore EXCEPT !.pc = AfterStatusCheck(status[restore.srv]),
                                     !.resp = StatusAnswer(status[restore.srv])]
     ELSE restore' = [restore EXCEPT !.pc = "done", !.resp = "404"]
  /\ UNCHANGED <<dataDir, restoreFrame>>

\* Service.FilePath: the archive of the backup; an error is answered 500
RestorePath(ok) ==
  /\ restore.pc = "path"
  /\ IF ok
     THEN restore' = [restore EXCEPT !.pc = "clear"]
     ELSE restore' = [restore EXCEPT !.pc = "done", !.resp = "500"]
  /\ UNCHANGED <<dataDir, restoreFrame>>

\* os.RemoveAll(destDir)
RestoreClear(ok) ==
  /\ restore.pc = "clear"
  /\ IF ok
     THEN /\ restore' = [restore EXCEPT !.pc = "mkdir"]
          /\ dataDir' = [dataDir EXCEPT ![restore.srv] = "gone"]
     ELSE /\ restore' = [restore EXCEPT !.pc = "done", !.resp = "500"]
          /\ dataDir' = [dataDir EXCEPT ![restore.srv] = "partial"]
  /\ UNCHANGED restoreFrame

\* os.MkdirAll(destDir, 0755)
RestoreMkdir(ok) ==
  /\ restore.pc = "mkdir"
  /\ IF ok
     THEN /\ restore' = [restore EXCEPT !.pc = "extract"]
          /\ dataDir' = [dataDir EXCEPT ![restore.srv] = "empty"]
     ELSE /\ restore' = [restore EXCEPT !.pc = "done", !.resp = "500"]
          /\ UNCHANGED dataDir
  /\ UNCHANGED restoreFrame

\* extractTarGz(path, destDir)
RestoreExtract(ok) ==
  /\ restore.pc = "extract"
  /\ IF ok
     THEN /\ restore' = [restore EXCEPT !.pc = "done", !.resp = "200"]
          /\ dataDir' = [dataDir EXCEPT ![restore.srv] = "restored"]
     ELSE /\ restore' = [restore EXCEPT !.pc = "done", !.resp = "500"]
          /\ dataDir' = [dataDir EXCEPT ![restore.srv] = "partial"]
  /\ UNCHANGED restoreFrame

(***************************************************************************)
(* ScheduleHandler.Create and ScheduleHandler.Update.  Both validate the   *)
(* body first; Create then inserts one row, Update runs one UPDATE per     *)
(* field the body holds and ignores their errors.  The name of a schedule  *)
(* is not kept in the rows of the model.                                   *)
(***************************************************************************)
\* the cron_expr of a body: expressions that parse, one that does not, and
\* the empty string
CronInputs == {EveryMinute, MinuteOne, NotCron, <<>>}

\* the action of a body: two of the four actions, an unknown one, the empty
\* string
ActionInputs == {"start", "stop", "pause", ""}

\* the bodies of a request: has... is false for a field an Update leaves out
Bodies ==
  {b \in [hasCron : BOOLEAN, cron_expr : CronInputs, hasAction : BOOLEAN,
          action : ActionInputs, hasEnabled : BOOLEAN, enabled : BOOLEAN] :
     /\ ~b.hasCron => b.cron_expr = <<>>
     /\ ~b.hasAction => b.action = ""
     /\ ~b.hasEnabled => ~b.enabled}

\* the bodies of Create: cron_expr and action are strings, enabled is not read
CreateBodies == {b \in Bodies : b.hasCron /\ b.hasAction /\ ~b.hasEnabled}

NoBody == [hasCron |-> FALSE, cron_expr |-> <<>>, hasAction |-> FALSE, action |-> "",
           hasEnabled |-> FALSE, enabled |-> FALSE]

\* no schedule request is being handled
NoSchedReq == [pc |-> "idle", op |-> "", srv |-> "", id |-> 0, body |-> NoBody,
               resp |-> "none", msg |-> ""]

\* what a schedule request leaves alone
schedApiFrame ==
  <<wall, skews, spc, schedCancelled, sleepLeft, tickNow, jobs, inflight, passes, loaded,
    dispatched, callErr, overrun, collectorVars, cpuVars, cronVars, consoleVars, live,
    logins, consoleReq, liveReq, restoreVars>>

\* a slip: the action of the body is not looked at
ValidBodyCronOnly(op, b) ==
  /\ op = "create" => b.cron_expr # <<>> /\ b.action # ""
  /\ b.hasCron => ParseCron(b.cron_expr).ok

\* the checks of Create and of Update before their first statement: Create
\* wants both strings, and a cron_expr has to parse and an action has to be
\* one of the four
ValidBody(op, b) ==
  /\ op = "create" => b.cron_expr # <<>> /\ b.action # ""
  /\ b.hasCron => ParseCron(b.cron_expr).ok
  /\ b.hasAction => b.action \in {"start", "stop", "restart", "backup"}

\* the row with this id exists: WHERE id = ? AND server_id = ?
RowExists(id, t) == id \in 1..Len(schedules) /\ schedules[id].server_id = t

\* the message of the 400 a body is answered with: the first check it fails
ErrorMessage(op, b) ==
  IF op = "create" /\ (b.cron_expr = <<>> \/ b.action = "")
  THEN "name, cron_expr, and action required"
  ELSE IF b.hasCron /\ ~ParseCron(b.cron_expr).ok
  THEN "invalid cron expression"
  ELSE "action must be one of: start, stop, restart, backup"

\* the handler has answered: the request and its body are gone
Answered(resp, msg) ==
  [schedReq EXCEPT !.pc = "done", !.body = NoBody, !.resp = resp, !.msg = msg]

\* POST /servers/{id}/schedules
ScheduleCreate(t, b) ==
  /\ schedReq.pc \in {"idle", "done"}
  /\ Len(schedules) < MaxSchedules
  /\ schedReq' = [pc |-> "validate", op |-> "create", srv |-> t, id |-> 0,
                  body |-> b, resp |-> "none", msg |-> ""]
  /\ UNCHANGED <<schedules, schedApiFrame>>

\* PUT /servers/{id}/schedules/{scheduleId}
ScheduleUpdate(t, id, b) ==
  /\ schedReq.pc \in {"idle", "done"}
  /\ schedReq' = [pc |-> "validate", op |-> "update", srv |-> t, id |-> id,
                  body |-> b, resp |-> "none", msg |-> ""]
  /\ UNCHANGED <<schedules, schedApiFrame>>

\* the checks: a body that fails one is answered 400
ScheduleValidate ==
  /\ schedReq.pc = "validate"
  /\ IF ValidBody(schedReq.op, schedReq.body)
     THEN schedReq' = [schedReq EXCEPT
                         !.pc = IF schedReq.op = "create" THEN "insert" ELSE "setCron"]
     ELSE schedReq' = Answered("400", ErrorMessage(schedReq.op, schedReq.body))
  /\ UNCHANGED <<schedules, schedApiFrame>>

\* INSERT INTO schedules (id, server_id, name, cron_expr, action); enabled
\* defaults to 1 and last_run to NULL; an error is answered 500
ScheduleInsert(ok) ==
  /\ schedReq.pc = "insert"
  /\ IF ok
     THEN /\ schedules' = Append(schedules,
                                 [server_id |-> schedReq.srv,
                                  cron_expr |-> schedReq.body.cron_expr,
                                  action |-> schedReq.body.action,
                                  enabled |-> TRUE, last_run |-> NeverRun])
          /\ schedReq' = Answered("201", "")
     ELSE /\ schedReq' = Answered("500", "failed to create schedule")
          /\ UNCHANGED schedules
  /\ UNCHANGED schedApiFrame

\* the statement of Update for one field runs when the body holds the field
\* and changes the row when it exists and the statement succeeds
Runs(has, ok) ==
  has /\ ok /\ RowExists(schedReq.id, schedReq.srv)

\* if req.CronExpr != nil: UPDATE schedules SET cron_expr = ?
ScheduleSetCron(ok) ==
  /\ schedReq.pc = "setCron"
  /\ ok \/ schedReq.body.hasCron
  /\ schedules' = IF Runs(schedReq.body.hasCron, ok)
                  THEN [schedules EXCEPT ![schedReq.id].cron_expr = schedReq.body.cron_expr]
                  ELSE schedules
  /\ schedReq' = [schedReq EXCEPT !.pc = "setAction"]
  /\ UNCHANGED schedApiFrame

\* if req.Action != nil: UPDATE schedules SET action = ?
ScheduleSetAction(ok) ==
  /\ schedReq.pc = "setAction"
  /\ ok \/ schedReq.body.hasAction
  /\ schedules' = IF Runs(schedReq.body.hasAction, ok)
                  THEN [schedules EXCEPT ![schedReq.id].action = schedReq.body.action]
                  ELSE schedules
  /\ schedReq' = [schedReq EXCEPT !.pc = "setEnabled"]
  /\ UNCHANGED schedApiFrame

\* if req.Enabled != nil: UPDATE schedules SET enabled = ?
ScheduleSetEnabled(ok) ==
  /\ schedReq.pc = "setEnabled"
  /\ ok \/ schedReq.body.hasEnabled
  /\ schedules' = IF Runs(schedReq.body.hasEnabled, ok)
                  THEN [schedules EXCEPT ![schedReq.id].enabled = schedReq.body.enabled]
                  ELSE schedules
  /\ schedReq' = [schedReq EXCEPT !.pc = "answer"]
  /\ UNCHANGED schedApiFrame

\* the row is read back: 200, or 404 when there is none
ScheduleAnswer ==
  /\ schedReq.pc = "answer"
  /\ schedReq' = IF RowExists(schedReq.id, schedReq.srv)
                 THEN Answered("200", "")
                 ELSE Answered("404", "schedule not found")
  /\ UNCHANGED <<schedules, schedApiFrame>>

(***************************************************************************)
(* The whole program: every operation with every outcome.                  *)
(***************************************************************************)
\* nothing fetched, parsed or scheduled yet
Init ==
  /\ NewCollector
  /\ dockerStats = NoDockerStats
  /\ cpuPercent = NoPercent
  /\ cronExpr = <<>>
  /\ cronIntent = NoIntent
  /\ cronResult = NoResult
  /\ cronMatch = NoMatch
  /\ schedules = <<>>
  /\ wall = 0
  /\ skews = 0
  /\ spc = "none"
  /\ schedCancelled = FALSE
  /\ sleepLeft = 0
  /\ tickNow = 0
  /\ jobs = <<>>
  /\ inflight = {}
  /\ passes = {}
  /\ loaded = <<>>
  /\ dispatched = <<>>
  /\ callErr = NoCallErr
  /\ overrun = {}
  /\ hpc = "idle"
  /\ response = "none"
  /\ upgraded = FALSE
  /\ connState = "none"
  /\ clientGone = FALSE
  /\ tty = FALSE
  /\ logState = "none"
  /\ attachState = "none"
  /\ logBuf = <<>>
  /\ logEnd = "follow"
  /\ size = 0
  /\ payload = <<>>
  /\ readErr = "nil"
  /\ outEnd = "none"
  /\ forwarded = <<>>
  /\ readBytes = <<>>
  /\ frames = NoFrames
  /\ cut = 0
  /\ ipc = "none"
  /\ inMsg = <<>>
  /\ clientMsgs = <<>>
  /\ received = <<>>
  /\ stdin = <<>>
  /\ live = [s \in Sessions |-> NoSession]
  /\ logins = [token \in LoginTokens |-> "none"]
  /\ consoleReq = NoReq
  /\ liveReq = [s \in Sessions |-> NoReq]
  /\ restore = NoRestore
  /\ dataDir = [t \in TargetSet |-> "data"]
  /\ schedReq = NoSchedReq

Next ==
  \/ Start
  \/ Stop
  \/ \E l \in Loops : TickerFire(l)
  \/ \E l \in Loops : Select(l)
  \/ \E l \in Loops, ok \in BOOLEAN : Query(l, ok)
  \/ \E l \in Loops, ok \in BOOLEAN : Fetch(l, ok)
  \/ \E l \in Loops, ok \in BOOLEAN : Insert(l, ok)
  \/ \E l \in Loops : Lock(l)
  \/ \E l \in Loops : Cache(l)
  \/ \E l \in Loops : Send(l)
  \/ \E l \in Loops, ok \in BOOLEAN : Sweep(l, ok)
  \/ \E t \in TargetSet : Subscribe(t)
  \/ \E t \in TargetSet, ch \in Chans : Unsubscribe(t, ch)
  \/ \E ch \in Chans : Receive(ch)
  \/ \E a \in Actions, t \in TargetSet, ok \in BOOLEAN : Lifecycle(a, t, ok)
  \/ AdvanceClock
  \/ Unmarshal
  \/ Calculate
  \/ SubmitParts
  \/ SubmitRaw
  \/ SubmitCount
  \/ SubmitFields
  \/ SubmitExample
  \/ Parse
  \/ Match
  \/ CreateSchedules
  \/ SchedulerStart
  \/ SchedulerStop
  \/ Tock
  \/ ClockBack
  \/ Sleep
  \/ Wake
  \/ \E ok \in BOOLEAN : ListSchedules(ok)
  \/ Evaluate
  \/ \E ok \in BOOLEAN : Return(ok)
  \/ \E ok \in BOOLEAN : StampLastRun(ok)
  \/ HandleNonTTY
  \/ HandleTTY
  \/ HandleInput
  \/ \E ok \in BOOLEAN : Resolve(ok)
  \/ \E ok \in BOOLEAN : Inspect(ok)
  \/ \E ok \in BOOLEAN : Upgrade(ok)
  \/ \E ok \in BOOLEAN : OpenLogs(ok)
  \/ \E ok \in BOOLEAN : Attach(ok)
  \/ ReadLog
  \/ ReadHeader
  \/ ReadPayload
  \/ \E ok \in BOOLEAN : WriteMessage(ok)
  \/ Deferred
  \/ ReadMessage
  \/ \E ok \in BOOLEAN : WriteStdin(ok)
  \/ ClientClose
  \/ \E s \in Sessions, t \in TargetSet, ok \in BOOLEAN : Live(s, t, ok)
  \/ \E s \in Sessions : LiveSubscribe(s)
  \/ \E s \in Sessions, ok \in BOOLEAN : LiveLatest(s, ok)
  \/ \E s \in Sessions, ok \in BOOLEAN : LiveForward(s, ok)
  \/ \E s \in Sessions : LiveReturn(s)
  \/ \E s \in Sessions : LiveDeferred(s)
  \/ \E token \in LoginTokens : Login(token)
  \/ \E token \in LoginTokens : SessionExpires(token)
  \/ \E token \in LoginTokens : Logout(token)
  \/ \E token \in QueryTokens : DispatchConsole(token)
  \/ \E s \in Sessions, token \in QueryTokens : DispatchLive(s, token)
  \/ \E t \in TargetSet : Restore(t)
  \/ \E ok \in BOOLEAN : RestoreCheck(ok)
  \/ \E ok \in BOOLEAN : RestorePath(ok)
  \/ \E ok \in BOOLEAN : RestoreClear(ok)
  \/ \E ok \in BOOLEAN : RestoreMkdir(ok)
  \/ \E ok \in BOOLEAN : RestoreExtract(ok)
  \/ \E t \in TargetSet, b \in CreateBodies : ScheduleCreate(t, b)
  \/ \E t \in TargetSet, id \in 1..MaxSchedules, b \in Bodies : ScheduleUpdate(t, id, b)
  \/ ScheduleValidate
  \/ \E ok \in BOOLEAN : ScheduleInsert(ok)
  \/ \E ok \in BOOLEAN : ScheduleSetCron(ok)
  \/ \E ok \in BOOLEAN : ScheduleSetAction(ok)
  \/ \E ok \in BOOLEAN : ScheduleSetEnabled(ok)
  \/ ScheduleAnswer

Spec == Init /\ [][Next]_vars

(***************************************************************************)
(* Scenarios: each runs the same operations as Next in a narrower          *)
(* environment, so every behaviour of a scenario is a behaviour of Spec.   *)
(***************************************************************************)
\* Start on a collector that was never started, as the server does once
StartOnce == Start /\ nloops = 0

\* one polling loop, a store that answers, subscribers that come and go
NextFanout ==
  \/ StartOnce
  \/ Stop
  \/ \E l \in Loops : TickerFire(l)
  \/ \E l \in Loops : Select(l)
  \/ \E l \in Loops : Query(l, TRUE)
  \/ \E l \in Loops, ok \in BOOLEAN : Fetch(l, ok)
  \/ \E l \in Loops : Insert(l, TRUE)
  \/ \E l \in Loops : Lock(l)
  \/ \E l \in Loops : Cache(l)
  \/ \E l \in Loops : Send(l)
  \/ \E l \in Loops : Sweep(l, TRUE)
  \/ \E t \in TargetSet : Subscribe(t)
  \/ \E t \in TargetSet, ch \in Chans : Unsubscribe(t, ch)
  \/ \E ch \in Chans : Receive(ch)

SpecFanout == Init /\ [][NextFanout]_vars

\* as NextFanout, with a store that rejects every insert
NextInsertFails ==
  \/ StartOnce
  \/ Stop
  \/ \E l \in Loops : TickerFire(l)
  \/ \E l \in Loops : Select(l)
  \/ \E l \in Loops : Query(l, TRUE)
  \/ \E l \in Loops, ok \in BOOLEAN : Fetch(l, ok)
  \/ \E l \in Loops : Insert(l, FALSE)
  \/ \E l \in Loops : Lock(l)
  \/ \E l \in Loops : Cache(l)
  \/ \E l \in Loops : Send(l)
  \/ \E l \in Loops : Sweep(l, TRUE)
  \/ \E t \in TargetSet : Subscribe(t)
  \/ \E t \in TargetSet, ch \in Chans : Unsubscribe(t, ch)
  \/ \E ch \in Chans : Receive(ch)

SpecInsertFails == Init /\ [][NextInsertFails]_vars

\* one polling loop, a store that takes every insert and may fail otherwise,
\* lifecycle actions and passing time, no subscribers
NextRetention ==
  \/ StartOnce
  \/ Stop
  \/ \E l \in Loops : TickerFire(l)
  \/ \E l \in Loops : Select(l)
  \/ \E l \in Loops, ok \in BOOLEAN : Query(l, ok)
  \/ \E l \in Loops, ok \in BOOLEAN : Fetch(l, ok)
  \/ \E l \in Loops : Insert(l, TRUE)
  \/ \E l \in Loops : Lock(l)
  \/ \E l \in Loops : Cache(l)
  \/ \E l \in Loops, ok \in BOOLEAN : Sweep(l, ok)
  \/ \E a \in Actions, t \in TargetSet, ok \in BOOLEAN : Lifecycle(a, t, ok)
  \/ AdvanceClock

SpecRetention == Init /\ [][NextRetention]_vars

\* one polling loop, a store that answers, subscribers and lifecycle actions
NextLifecycle ==
  \/ StartOnce
  \/ Stop
  \/ \E l \in Loops : TickerFire(l)
  \/ \E l \in Loops : Select(l)
  \/ \E l \in Loops : Query(l, TRUE)
  \/ \E l \in Loops, ok \in BOOLEAN : Fetch(l, ok)
  \/ \E l \in Loops : Insert(l, TRUE)
  \/ \E l \in Loops : Lock(l)
  \/ \E l \in Loops : Cache(l)
  \/ \E l \in Loops : Send(l)
  \/ \E l \in Loops : Sweep(l, TRUE)
  \/ \E t \in TargetSet : Subscribe(t)
  \/ \E t \in TargetSet, ch \in Chans : Unsubscribe(t, ch)
  \/ \E ch \in Chans : Receive(ch)
  \/ \E a \in Actions, t \in TargetSet, ok \in BOOLEAN : Lifecycle(a, t, ok)

SpecLifecycle == Init /\ [][NextLifecycle]_vars

\* Start and Stop called in any order, every store and fetch outcome, no
\* subscribers
NextRestart ==
  \/ Start
  \/ Stop
  \/ \E l \in Loops : TickerFire(l)
  \/ \E l \in Loops : Select(l)
  \/ \E l \in Loops, ok \in BOOLEAN : Query(l, ok)
  \/ \E l \in Loops, ok \in BOOLEAN : Fetch(l, ok)
  \/ \E l \in Loops, ok \in BOOLEAN : Insert(l, ok)
  \/ \E l \in Loops : Lock(l)
  \/ \E l \in Loops : Cache(l)
  \/ \E l \in Loops, ok \in BOOLEAN : Sweep(l, ok)

SpecRestart == Init /\ [][NextRestart]_vars

(***************************************************************************)
(* Properties of the collector.                                            *)
(***************************************************************************)
\* the conduits registered for server t
Registered(t) == {listeners[t].arr[k] : k \in 1..listeners[t].len}

\* loop l completes one iteration of its range over listeners in this step
SendStep(l) == pc[l] = "send" /\ snap'[l].idx # snap[l].idx

\* C1: Start on a collector whose polling loop is running starts no second
\* loop: in every reachable state at most one polling loop is alive.
C1_AtMostOneLoopAlive == Cardinality({l \in Loops : Alive(l)}) <= 1

\* C2: a conduit never holds more than one sample, a tick at a send is never
\* blocked by a full conduit, and a full conduit keeps the sample it holds
\* until the consumer takes it (the new sample is the one discarded).
C2_NonBlockingSingleSlot ==
  /\ [](/\ \A ch \in Chans : Len(chanBuf[ch]) <= ChanCap
        /\ \A l \in Loops : (pc[l] = "send" /\ ~panicked) => ENABLED Send(l))
  /\ [][\A ch \in Chans :
          Len(chanBuf[ch]) = ChanCap =>
            chanBuf'[ch] = chanBuf[ch] \/ chanBuf'[ch] = <<>>]_vars

\* a subscribed conduit still holds an older sample of its server after a
\* newer one went through fan-out, and the tick has moved on
C2_Witness ==
  \E t \in TargetSet, ch \in Chans, l \in Loops :
    /\ ch \in Registered(t)
    /\ chanBuf[ch] # <<>>
    /\ Head(chanBuf[ch]).server_id = t
    /\ Head(chanBuf[ch]).seq < latest[t].seq
    /\ pc[l] \in {"fetch", "sweep", "select"}

\* C3 as stated: once a sample was offered to a conduit, the conduit holds
\* that most recent sample, also when it already held an earlier one.
C3_NewestRetained ==
  [][\A l \in Loops :
       SendStep(l) => chanBuf'[SnapElem(l)] = <<stats[l]>>]_vars

\* C3 as the code has it: a sample offered to a conduit that still holds an
\* earlier one is dropped; the earlier sample is the one retrievable.
C3_EarliestRetained ==
  [][\A l \in Loops :
       (SendStep(l) /\ chanBuf[SnapElem(l)] # <<>>) =>
         /\ chanBuf'[SnapElem(l)] = chanBuf[SnapElem(l)]
         /\ Head(chanBuf'[SnapElem(l)]).seq <= stats[l].seq]_vars

\* two samples of one server were fetched and cached, the loop is idle, and
\* a conduit subscribed for the server holds the first of them
C3_Witness ==
  \E t \in TargetSet, ch \in Chans, l \in Loops :
    /\ pc[l] = "parked"
    /\ ch \in Registered(t)
    /\ latest[t].seq = 2
    /\ chanBuf[ch] = <<[server_id |-> t, seq |-> 1]>>

\* this step adds a row of server t to the stats table
Persists(t) == \E r \in stats_rows' \ stats_rows : r.server_id = t

\* this step replaces the cache entry of server t
Caches(t) == latest'[t] # latest[t]

\* this step offers a sample of server t to a conduit
FansOut(t) == \E l \in Loops : SendStep(l) /\ stats[l].server_id = t

\* C4: whenever a tick persists, caches or fans out a sample for a server,
\* the stored status of that server is running at that moment.
C4_OnlyRunningEmitted ==
  [][\A t \in TargetSet :
       (Persists(t) \/ Caches(t) \/ FansOut(t)) => status[t] = "running"]_vars

\* the sequence q without its elements equal to ch
Without(q, ch) == SelectSeq(q, LAMBDA c : c # ch)

\* C5: a step that unregisters or closes a conduit ch does both to ch and to
\* nothing else: ch was registered, the list of its server is the old list
\* without ch, every other list, every other conduit's state, every buffer
\* and the latest-sample cache are unchanged.
C5_UnsubscribeFrame ==
  [][\A ch \in Chans :
       ((~chanClosed[ch] /\ chanClosed'[ch]) \/
        (\E t \in TargetSet : ch \in Registered(t) /\ ch \notin Registered(t)'))
       =>
       \E t \in TargetSet :
         /\ ch \in Registered(t)
         /\ ~chanClosed[ch] /\ chanClosed'[ch]
         /\ SliceElems(listeners'[t]) = Without(SliceElems(listeners[t]), ch)
         /\ \A u \in TargetSet \ {t} :
              SliceElems(listeners'[u]) = SliceElems(listeners[u])
         /\ \A c \in Chans \ {ch} : chanClosed'[c] = chanClosed[c]
         /\ chanBuf' = chanBuf
         /\ latest' = latest]_vars

\* the first of two conduits of one server was unsubscribed: it is closed and
\* gone, the second is still registered and open
C5_Witness ==
  \E t \in TargetSet :
    /\ chanClosed[1] /\ ~chanClosed[2]
    /\ SliceElems(listeners[t]) = <<2>>
    /\ Len(listeners[t].arr) = 2

\* C6: a Stop that cancels the collector's context ends every polling loop
\* that is idle at that moment, without another tick.
StopStep == \E l \in Loops : ~cancelled[l] /\ cancelled'[l]
C6_StopEndsIdleLoops ==
  [][StopStep => \A l \in Loops : pc[l] = "parked" => pc'[l] = "done"]_vars

\* C7: unless a tick holds a fetched sample of the server that it has not
\* finished publishing, Latest returns the sample of the most recent
\* successful fetch for the server, and a nil sample if there was none.
Latest(t) == latest[t]
C7_LatestIsMostRecentFetch ==
  \A t \in TargetSet :
    (\A l \in Loops : stats[l].server_id # t) =>
      /\ Latest(t).seq = lastFetched[t]
      /\ Latest(t) # NoStats => Latest(t).server_id = t

\* loop l gives up the fetch for the head of its list in this step
FetchErrorStep(l) == pc[l] = "fetch" /\ servers'[l] # servers[l]

\* C8: a failed fetch adds no row, leaves the cache and every conduit as they
\* are, and the tick goes on with exactly the servers listed after the
\* failed one.
C8_FetchErrorSkipsOneServer ==
  [][\A l \in Loops :
       FetchErrorStep(l) =>
         /\ stats_rows' = stats_rows
         /\ latest' = latest
         /\ chanBuf' = chanBuf /\ chanClosed' = chanClosed
         /\ servers'[l] = Tail(servers[l])
         /\ pc'[l] = IF Tail(servers[l]) = <<>> THEN "sweep" ELSE "fetch"]_vars

\* in the first tick the fetch for a failed and the sample of b, fetched
\* after it, is persisted, cached and held by a conduit of b
C8_Witness ==
  /\ lastFetched["a"] = 0 /\ lastFetched["b"] = 1
  /\ latest["a"] = NoStats /\ latest["b"].seq = 1
  /\ \E r \in stats_rows : r.server_id = "b" /\ r.seq = 1
  /\ \E ch \in Registered("b") : chanBuf[ch] = <<latest["b"]>>

\* loop l leaves the critical section of collect in this step
CacheStep(l) == pc[l] = "cache" /\ pc'[l] # "cache"

\* C9: after a failed insert the fetched sample still replaces the cache
\* entry of its server, the tick still ranges over every conduit registered
\* for the server, and each send of that range offers that same sample.
C9_InsertErrorStillPublishes ==
  [][\A l \in Loops :
       /\ (CacheStep(l) /\ err[l]) =>
            /\ latest'[Head(servers[l])] = stats[l]
            /\ listeners[Head(servers[l])].len > 0 =>
                 /\ pc'[l] = "send"
                 /\ stats'[l] = stats[l]
                 /\ snap'[l].idx = 1
                 /\ snap'[l].len = listeners[Head(servers[l])].len
       /\ (SendStep(l) /\ err[l]) =>
            chanBuf'[SnapElem(l)] =
              IF chanBuf[SnapElem(l)] = <<>> THEN <<stats[l]>>
              ELSE chanBuf[SnapElem(l)]]_vars

\* nothing was ever persisted, and a sample is cached and held by a conduit
C9_Witness ==
  /\ stats_rows = {}
  /\ \E t \in TargetSet, ch \in Chans :
       /\ latest[t] # NoStats
       /\ ch \in Registered(t)
       /\ chanBuf[ch] = <<latest[t]>>

\* loop l completes the retention sweep in this step
SweepOkStep(l) == pc[l] = "sweep" /\ pc'[l] = "select" /\ ~err'[l]

\* C10: a completed sweep removes exactly the rows recorded more than 24
\* hours before it, whatever server they belong to: no older row is left and
\* every row that is not older is still there.
C10_SweepRemovesExactlyOldRows ==
  [][\A l \in Loops :
       SweepOkStep(l) =>
         /\ stats_rows' \subseteq stats_rows
         /\ \A r \in stats_rows' : clock - r.recorded_at <= RetentionHours
         /\ \A r \in stats_rows :
              clock - r.recorded_at <= RetentionHours => r \in stats_rows']_vars

\* after a sweep the first of two persisted samples is gone and the second,
\* exactly 24 hours old and of a server that no longer runs, is still there
C10_Witness ==
  \E l \in Loops, r \in stats_rows :
    /\ pc[l] = "select" /\ ~err[l]
    /\ nextSample = 3
    /\ stats_rows = {r}
    /\ r.seq = 2
    /\ clock - r.recorded_at = RetentionHours
    /\ status[r.server_id] # "running"

(***************************************************************************)
(* Properties of calculateCPUPercent.                                      *)
(***************************************************************************)
\* fetchStats alone: stats are decoded and the percentage is calculated
NextCPU ==
  \/ Unmarshal
  \/ Calculate

SpecCPU == Init /\ [][NextCPU]_vars

\* the differences of the counters as numbers, before any wrapping
cpuDelta == dockerStats.total_usage - dockerStats.pre_total_usage
systemDelta == dockerStats.system_cpu_usage - dockerStats.pre_system_cpu_usage

\* C11: once calculated, the percentage is 0 whenever either difference
\* (current counter minus previous counter) is <= 0, a current CPU counter
\* smaller than the previous one included.
C11_ZeroWhenDeltaNotPositive ==
  (cpuPercent # NoPercent /\ (cpuDelta <= 0 \/ systemDelta <= 0)) =>
    cpuPercent = Fraction(0, 1)

\* C12: once calculated from two positive differences, the percentage is
\* (cpuDelta / systemDelta) * onlineCpus * 100 with onlineCpus read as 1
\* when it is 0; differences of 200000000 and 1000000000 on 4 CPUs give 80;
\* and no calculated percentage is negative.
C12_PercentOfPositiveDeltas ==
  /\ PercentOf(200000000, 1000000000, 4) = Fraction(80, 1)
  /\ cpuPercent # NoPercent =>
       /\ cpuPercent.num >= 0 /\ cpuPercent.den > 0
       /\ GCD(cpuPercent.num, cpuPercent.den) = 1
       /\ (cpuDelta > 0 /\ systemDelta > 0) =>
            cpuPercent.num * systemDelta =
              cpuPercent.den * cpuDelta * 100 *
                (IF dockerStats.online_cpus = 0 THEN 1 ELSE dockerStats.online_cpus)

\* a percentage of 150 was calculated from positive differences with
\* online_cpus reported as 0
C12_Witness ==
  /\ cpuDelta = 3 /\ systemDelta = 2 /\ dockerStats.online_cpus = 0
  /\ cpuPercent = Fraction(150, 1)

(***************************************************************************)
(* Properties of the cron parser.                                          *)
(***************************************************************************)
\* ParseCron on expressions with one field written freely or part by part,
\* on expressions of any number of fields, and on the documented ones
NextCronParse ==
  \/ SubmitParts
  \/ SubmitRaw
  \/ SubmitCount
  \/ SubmitExample
  \/ Parse

SpecCronParse == Init /\ [][NextCronParse]_vars

\* ParseCron and Matches on expressions with several restricted fields
NextCronMatch ==
  \/ SubmitFields
  \/ SubmitExample
  \/ Parse
  \/ Match

SpecCronMatch == Init /\ [][NextCronMatch]_vars

\* ParseCron has returned
Parsed == cronResult # NoResult

\* the values of field i of the parsed expression, as a sequence and as a set
FieldVals(i) ==
  <<cronResult.cron.Minutes, cronResult.cron.Hours, cronResult.cron.DaysOfMonth,
    cronResult.cron.Months, cronResult.cron.DaysOfWeek>>[i]
FieldSet(i) == {FieldVals(i)[k] : k \in 1..Len(FieldVals(i))}

\* C13: every integer of every field of an accepted expression lies within
\* the bound of its field (an expression with a part that yields an integer
\* outside the bound is rejected).
C13_ValuesWithinBounds ==
  (Parsed /\ cronResult.ok) =>
    \A i \in 1..Len(FieldNames) :
      \A v \in FieldSet(i) : FieldMin[i] <= v /\ v <= FieldMax[i]

\* Matches has been asked about a time
Matched == cronMatch # NoMatch

\* C14: Matches(t) is true exactly when the minute, hour, day of month, month
\* and day of week of t are each in the set of their field, all five at
\* once; "0 4 * * *" matches 04:00 on any date and neither 04:01 nor 03:00.
C14_MatchesIsConjunction ==
  Matched =>
    /\ cronMatch.matched <=>
         /\ cronMatch.t.minute \in FieldSet(1)
         /\ cronMatch.t.hour \in FieldSet(2)
         /\ cronMatch.t.day \in FieldSet(3)
         /\ cronMatch.t.month \in FieldSet(4)
         /\ cronMatch.t.weekday \in FieldSet(5)
    /\ cronExpr = DailyAtFour =>
         (cronMatch.matched <=> cronMatch.t.minute = 0 /\ cronMatch.t.hour = 4)

\* "0 4 1-2 * 0" was asked about 04:00 on day 1, a day of week 1: the day of
\* month is in its set, the day of week is not, and Matches said no
C14_Witness ==
  /\ cronExpr = Join(<<<<"0">>, <<"4">>, <<"1", "-", "2">>, <<"*">>, <<"0">>>>, <<" ">>)
  /\ cronMatch.t = [minute |-> 0, hour |-> 4, day |-> 1, month |-> 1, weekday |-> 1]
  /\ Matched /\ ~cronMatch.matched

\* the tokens a part is written with
PartTokens(p) ==
  IF p.kind = "star" THEN {}
  ELSE IF p.kind = "starstep" THEN {p.s}
  ELSE IF p.kind = "range" THEN {p.a, p.b}
  ELSE IF p.kind = "rangestep" THEN {p.a, p.b, p.s}
  ELSE {p.a}

\* a part of non-negative integers with a positive step
WellFormed(p) ==
  /\ \A tok \in PartTokens(p) : tok.int /\ tok.val >= 0
  /\ p.s.val > 0

\* the set a well-formed part stands for in a field with bound [min, max]
PartSet(p, min, max) ==
  IF p.kind = "star" THEN min..max
  ELSE IF p.kind = "starstep" THEN {v \in min..max : (v - min) % p.s.val = 0}
  ELSE IF p.kind = "range" THEN p.a.val..p.b.val
  ELSE IF p.kind = "rangestep"
  THEN {v \in p.a.val..p.b.val : (v - p.a.val) % p.s.val = 0}
  ELSE {p.a.val}

\* the parts of the field written part by part
IntentParts == {cronIntent.parts[k] : k \in 1..Len(cronIntent.parts)}

\* C15: a field written as a list of well-formed parts parses, when the
\* expression is accepted, to exactly the union of the sets of its parts
\* (full range for *, every step-th value from min for */step, a..b for a-b,
\* every step-th value from a up to b for a-b/step, n for n), every field *
\* parses to its full range, the expression is accepted whenever all those
\* values are within the bound, and */15 as minute gives exactly 0,15,30,45.
C15_FieldIsUnionOfParts ==
  /\ (Parsed /\ cronIntent.kind = "parts" /\ \A p \in IntentParts : WellFormed(p)) =>
       LET pos == cronIntent.pos
           expected == UNION {PartSet(p, FieldMin[pos], FieldMax[pos]) : p \in IntentParts}
       IN /\ cronResult.ok =>
               /\ FieldSet(pos) = expected
               /\ \A i \in 1..Len(FieldNames) \ {pos} :
                    FieldSet(i) = FieldMin[i]..FieldMax[i]
          /\ expected \subseteq FieldMin[pos]..FieldMax[pos] => cronResult.ok
  /\ (Parsed /\ cronExpr = EveryQuarter) =>
       cronResult.ok /\ cronResult.cron.Minutes = <<0, 15, 30, 45>>

\* "1-7/2,*/15 * * * *" was accepted with minutes 1,3,5,7 and 0,15,30,45
C15_Witness ==
  /\ cronIntent.kind = "parts" /\ cronIntent.pos = 1
  /\ cronIntent.parts =
       <<[kind |-> "rangestep", a |-> Number(1), b |-> Number(7), s |-> Number(2)],
         [kind |-> "starstep", a |-> Number(0), b |-> Number(0), s |-> Number(15)]>>
  /\ cronResult.ok
  /\ cronResult.cron.Minutes = <<1, 3, 5, 7, 0, 15, 30, 45>>

\* C16: ParseCron returns an error and no CronExpr when the expression has
\* not exactly 5 fields, when a token of a part is no integer, or when a step
\* is <= 0; an error of a field names that field, the field-count error
\* names none; "60 * * * *" and "1-5/0 * * * *" are errors of the minute
\* field.
C16_RejectsMalformed ==
  Parsed =>
    /\ ~cronResult.ok => cronResult.cron = NoCron
    /\ cronIntent.kind = "count" =>
         /\ cronResult.ok <=> cronIntent.n = Len(FieldNames)
         /\ cronResult.field = ""
    /\ (cronIntent.kind = "parts" /\
        \E p \in IntentParts : (\E tok \in PartTokens(p) : ~tok.int) \/ p.s.val <= 0) =>
         ~cronResult.ok
    /\ (cronIntent.kind = "raw" /\ Contains(cronExpr, "x")) => ~cronResult.ok
    /\ (cronIntent.kind \in {"parts", "raw"} /\ ~cronResult.ok) =>
         cronResult.field = FieldNames[cronIntent.pos]
    /\ cronExpr \in {MinuteSixty, StepZero} =>
         ~cronResult.ok /\ cronResult.field = "minute"

\* "* * * * 1-7/0" was rejected for its step, naming the day-of-week field
C16_Witness ==
  /\ cronIntent.kind = "parts" /\ cronIntent.pos = 5
  /\ cronIntent.parts =
       <<[kind |-> "rangestep", a |-> Number(1), b |-> Number(7), s |-> Number(0)]>>
  /\ ~cronResult.ok
  /\ cronResult.field = "day-of-week"
  /\ cronResult.err = "invalid step"

(***************************************************************************)
(* Properties of the scheduler.                                            *)
(***************************************************************************)
\* one scheduler loop, a store that takes every stamp, a steady clock
NextPasses ==
  \/ CreateSchedules
  \/ SchedulerStart
  \/ Tock
  \/ Sleep
  \/ Wake
  \/ \E ok \in BOOLEAN : ListSchedules(ok)
  \/ Evaluate
  \/ \E ok \in BOOLEAN : Return(ok)
  \/ StampLastRun(TRUE)

SpecPasses == Init /\ [][NextPasses]_vars

\* as NextPasses, with a wall clock that can be set back
NextSkew ==
  \/ CreateSchedules
  \/ SchedulerStart
  \/ Tock
  \/ ClockBack
  \/ Sleep
  \/ Wake
  \/ \E ok \in BOOLEAN : ListSchedules(ok)
  \/ Evaluate
  \/ \E ok \in BOOLEAN : Return(ok)
  \/ StampLastRun(TRUE)

SpecSkew == Init /\ [][NextSkew]_vars
\* a step that starts an evaluation pass
PassStarts == spc = "sleep" /\ spc' = "query"

\* C17: the loop never wakes twice for the same minute boundary: a pass never
\* starts with a timestamp in a calendar minute in which an earlier pass
\* started.
C17_OnePassPerMinute == [][PassStarts => MinuteOf(tickNow') \notin passes]_vars
\* a pass has run and the loop is back at its top or asleep
PassOver == passes # {} /\ spc \in {"compute", "sleep"}

\* the schedule with id i is enabled, its expression parses and matches t
ShouldRun(i, t) == schedules[i].enabled /\ Due(schedules[i].cron_expr, t)

\* the ids of the schedules a pass with timestamp t has to dispatch
Expected(t) == SelectSeq([i \in 1..Len(schedules) |-> i], LAMBDA i : ShouldRun(i, t))

\* the step starts a capability call for the schedule with id i
CallStarts(i) == \E call \in inflight' \ inflight : call.scheduleID = i

\* the step changes last_run of the schedule with id i
LastRunChanges(i) == schedules'[i].last_run # schedules[i].last_run

\* C18: a pass with timestamp t dispatches a schedule exactly once if it is
\* enabled, parses and matches t, and not at all otherwise (a pass whose query
\* failed dispatches nothing); no step starts a capability call for, or changes
\* last_run of, a schedule that is disabled or does not match.
C18_DispatchedIffDue ==
  /\ [](PassOver => (dispatched = Expected(tickNow) \/ (loaded = <<>> /\ dispatched = <<>>)))
  /\ [][\A i \in DOMAIN schedules :
          (CallStarts(i) \/ LastRunChanges(i)) => ShouldRun(i, tickNow)]_vars

\* a pass dispatched one schedule and passed over a disabled one that matched
\* and a later one
C18_Witness ==
  /\ PassOver
  /\ Len(schedules) >= 2
  /\ dispatched # <<>>
  /\ schedules[dispatched[1]].last_run = tickNow
  /\ \E i \in DOMAIN schedules :
       /\ ~(\E k \in DOMAIN dispatched : dispatched[k] = i)
       /\ schedules[i].last_run = NeverRun
       /\ (~schedules[i].enabled \/ ~Due(schedules[i].cron_expr, tickNow))
\* the ids in the sequence ids
Ids(ids) == {ids[k] : k \in DOMAIN ids}

\* C19: every schedule a pass dispatched has last_run equal to the timestamp
\* the pass took when it started, whether its action succeeded or failed: the
\* timestamp changes only when a pass starts, a call that returns with either
\* outcome is followed by the stamp of the same job, every change of last_run
\* writes the timestamp of the pass, and no last_run is later than it.
C19_StampIsPassTimestamp ==
  /\ [](PassOver => \A i \in Ids(dispatched) : schedules[i].last_run = tickNow)
  /\ [](\A i \in DOMAIN schedules : schedules[i].last_run <= tickNow)
  /\ [][tickNow' # tickNow => PassStarts]_vars
  /\ [][spc = "call" /\ inflight' # inflight => spc' = "stamp" /\ jobs' = jobs]_vars
  /\ [][\A i \in DOMAIN schedules :
          LastRunChanges(i) => schedules'[i].last_run = tickNow /\ tickNow' = tickNow]_vars

\* a stop was dispatched and failed (its server is still running), time went
\* by during the pass, and the schedule carries the timestamp of the pass
C19_Witness ==
  /\ PassOver
  /\ wall > tickNow
  /\ dispatched # <<>>
  /\ \A i \in Ids(dispatched) :
       /\ schedules[i].action = "stop"
       /\ status[schedules[i].server_id] = "running"
       /\ schedules[i].last_run = tickNow
\* C20: within a pass the dispatches run one at a time in the order the
\* schedules were loaded: at most one capability call is in flight, a call
\* starts only when no call is in flight and every schedule dispatched before
\* it in the pass has been stamped, and the dispatched ids follow the order of
\* the loaded ones.
C20_OneCallAtATime ==
  /\ [](Cardinality(inflight) <= 1)
  /\ [](\A k \in DOMAIN dispatched :
          /\ \E n \in DOMAIN loaded : loaded[n] = dispatched[k]
          /\ \A m \in DOMAIN dispatched : k < m => dispatched[k] < dispatched[m])
  /\ [][\A i \in DOMAIN schedules :
          CallStarts(i) =>
            /\ inflight = {}
            /\ \A k \in Ids(dispatched) : schedules[k].last_run = tickNow]_vars

\* the second call of a pass is in flight after the first returned and its
\* schedule was stamped
C20_Witness ==
  /\ spc = "call"
  /\ Len(dispatched) = 2
  /\ Cardinality(inflight) = 1
  /\ \E call \in inflight : call.scheduleID = dispatched[2]
  /\ schedules[dispatched[1]].last_run = tickNow
  /\ schedules[dispatched[2]].last_run # tickNow
\* one scheduler loop that the server stops at any moment
NextStop ==
  \/ CreateSchedules
  \/ SchedulerStart
  \/ SchedulerStop
  \/ Tock
  \/ Sleep
  \/ Wake
  \/ \E ok \in BOOLEAN : ListSchedules(ok)
  \/ Evaluate
  \/ \E ok \in BOOLEAN : Return(ok)
  \/ StampLastRun(TRUE)

SpecStop == Init /\ [][NextStop]_vars

\* the loop sleeps and its timer has not fired
Sleeping == spc = "sleep" /\ sleepLeft > 0

\* the goroutine of the loop has returned
Exited == spc = "done"

\* C21: a Stop received while the loop sleeps to the next minute boundary
\* makes it exit without a pass: the step of Stop ends the sleeping loop, and
\* a loop that has exited starts no pass, dispatches nothing, starts no call
\* and changes no last_run.
C21_StopWhileSleepingExits ==
  /\ [][Sleeping /\ schedCancelled' /\ ~schedCancelled => Exited']_vars
  /\ [][Exited => /\ Exited'
                  /\ schedules' = schedules
                  /\ passes' = passes
                  /\ dispatched' = dispatched
                  /\ inflight' = inflight
                  /\ tickNow' = tickNow]_vars

\* the loop was stopped in its first sleep: the minute boundary went by,
\* no pass ran, and an enabled schedule matching every minute never ran
C21_Witness ==
  /\ Exited
  /\ passes = {}
  /\ wall >= TicksPerMinute
  /\ \E i \in DOMAIN schedules :
       /\ schedules[i].enabled
       /\ schedules[i].cron_expr = EveryMinute
       /\ schedules[i].last_run = NeverRun

\* after a Stop the pass in flight still runs to its end and the loop exits
\* only from its top, without another pass
FinishesPass ==
  /\ [](Exited /\ passes # {} =>
          /\ dispatched = Expected(tickNow) \/ (loaded = <<>> /\ dispatched = <<>>)
          /\ \A i \in Ids(dispatched) : schedules[i].last_run = tickNow)
  /\ [][InPass /\ schedCancelled => ~Exited']_vars
  /\ [][spc = "compute" /\ schedCancelled => spc' \in {"compute", "done"}]_vars

\* no lifecycle call of the pass is made on a context that is already
\* cancelled, which the call can only answer with an error
CarriesOutActions ==
  [](\A call \in inflight : call.ctxDone => call.action = "backup")

\* C22: a Stop received during a pass lets the pass finish: every remaining
\* matching schedule has its action carried out and its last_run stamped, and
\* only then the loop exits without starting another pass.
C22_StopDuringPassFinishes == FinishesPass /\ CarriesOutActions
\* the fields of a schedule the scheduler has no business with
Settings(row) ==
  [server_id |-> row.server_id, cron_expr |-> row.cron_expr, action |-> row.action,
   enabled |-> row.enabled]

\* the expression of the schedule with id i fails to parse
Unparseable(i) == ~ParseCron(schedules[i].cron_expr).ok

\* C23: the scheduler changes no field of a schedule but last_run; a schedule
\* whose expression fails to parse is never dispatched and keeps its enabled
\* flag and its last_run, and the other schedules of the pass are evaluated
\* all the same.
C23_OnlyLastRunChanges ==
  /\ [][schedules # <<>> =>
          /\ DOMAIN schedules' = DOMAIN schedules
          /\ \A i \in DOMAIN schedules : Settings(schedules'[i]) = Settings(schedules[i])]_vars
  /\ [](\A i \in DOMAIN schedules :
          \/ /\ schedules[i].last_run = NeverRun
             /\ i \notin Ids(dispatched)
             /\ \A call \in inflight : call.scheduleID # i
          \/ ~Unparseable(i))
  /\ [](PassOver /\ loaded # <<>> => dispatched = Expected(tickNow))

\* a pass skipped an enabled schedule that does not parse and dispatched and
\* stamped the schedule after it
C23_Witness ==
  /\ PassOver
  /\ Len(schedules) >= 2
  /\ schedules[1].enabled
  /\ Unparseable(1)
  /\ schedules[1].last_run = NeverRun
  /\ dispatched = <<2>>
  /\ schedules[2].last_run = tickNow
\* a call of the scheduler returns in this step
Returns == callErr' # NoCallErr /\ callErr' # callErr

C30_NoSendOnClosedConduit == ~panicked
(***************************************************************************)
(* Properties of the console session.                                      *)
(***************************************************************************)
\* one console session whose container writes and whose client only listens
NextConsoleOut ==
  \/ HandleNonTTY
  \/ HandleTTY
  \/ \E ok \in BOOLEAN : Resolve(ok)
  \/ \E ok \in BOOLEAN : Inspect(ok)
  \/ \E ok \in BOOLEAN : Upgrade(ok)
  \/ \E ok \in BOOLEAN : OpenLogs(ok)
  \/ \E ok \in BOOLEAN : Attach(ok)
  \/ ReadLog
  \/ ReadHeader
  \/ ReadPayload
  \/ \E ok \in BOOLEAN : WriteMessage(ok)
  \/ Deferred
  \/ ReadMessage
  \/ ClientClose

SpecConsoleOut == Init /\ [][NextConsoleOut]_vars

\* one console session whose client sends messages, with an input that
\* takes every write
NextConsoleIn ==
  \/ HandleInput
  \/ \E ok \in BOOLEAN : Resolve(ok)
  \/ \E ok \in BOOLEAN : Inspect(ok)
  \/ \E ok \in BOOLEAN : Upgrade(ok)
  \/ \E ok \in BOOLEAN : OpenLogs(ok)
  \/ \E ok \in BOOLEAN : Attach(ok)
  \/ ReadLog
  \/ ReadHeader
  \/ Deferred
  \/ ReadMessage
  \/ WriteStdin(TRUE)
  \/ ClientClose

SpecConsoleIn == Init /\ [][NextConsoleIn]_vars
\* Handle answered that the session is refused
Refused == response \in {"404", "500"}

\* C25: a failure to resolve the container or to inspect it is answered with
\* an error and ends the handler before any upgrade: a refused session is
\* never upgraded, has no connection, no log stream, no attach handle and no
\* pump, and the handler leaves the lookup and the inspection only onwards
\* without an answer or to its end with the error.
C25_RefusedBeforeUpgrade ==
  /\ [](Refused => /\ hpc = "done"
                   /\ ~upgraded
                   /\ connState = "none"
                   /\ logState = "none"
                   /\ attachState = "none"
                   /\ ipc = "none"
                   /\ forwarded = <<>>)
  /\ [][hpc = "resolve" /\ hpc' # hpc =>
          \/ hpc' = "inspect" /\ response' = "none"
          \/ hpc' = "done" /\ response' = "404"]_vars
  /\ [][hpc = "inspect" /\ hpc' # hpc =>
          \/ hpc' = "upgrade" /\ response' = "none"
          \/ hpc' = "done" /\ response' = "500"]_vars

\* the inspection of a container with output to show failed
C25_Witness ==
  /\ response = "500"
  /\ hpc = "done"
  /\ logBuf # <<>>
  /\ ~upgraded
\* the payloads a pump has to forward from the first avail bytes of the
\* stream of the frames fs, the first of them being the k-th: those of the
\* frames that are whole and not empty
RECURSIVE Payloads(_, _, _)
Payloads(fs, k, avail) ==
  IF fs = <<>> \/ avail < HeaderLen \/ avail < HeaderLen + Declared(Head(fs)) THEN <<>>
  ELSE (IF Head(fs).len > 0 THEN <<PayloadOf(k, Head(fs).len)>> ELSE <<>>) \o
       Payloads(Tail(fs), k + 1, avail - HeaderLen - Head(fs).len)

\* the lengths of stream at which a frame of fs ends
RECURSIVE Boundaries(_)
Boundaries(fs) ==
  IF fs = <<>> \/ Head(fs).big THEN {0}
  ELSE {0} \cup {HeaderLen + Head(fs).len + b : b \in Boundaries(Tail(fs))}

\* s is the beginning of t
IsPrefix(s, t) == Len(s) <= Len(t) /\ s = Take(t, Len(s))

\* the non-TTY pump waits for bytes the stream does not hold yet
PumpWaits ==
  \/ hpc = "read" /\ Len(logBuf) < HeaderLen
  \/ hpc = "payload" /\ Len(logBuf) < size

\* C26: for a non-TTY stream of 8-byte-header frames the messages forwarded
\* are the payloads of the whole frames of non-zero length, one message per
\* frame, in stream order, without any header byte: at every moment they are
\* the first of these payloads, and all of them once the pump has read the
\* stream to its end or waits for more; a stream that ends at a frame
\* boundary ends the pump cleanly, and one that ends inside a header or a
\* payload ends it with nothing partial forwarded.
C26_ForwardsWholePayloads ==
  ~tty =>
    /\ IsPrefix(forwarded, Payloads(frames, 1, cut))
    /\ outEnd \in {"eof", "error"} => forwarded = Payloads(frames, 1, cut)
    /\ PumpWaits => forwarded = Payloads(frames, 1, cut)
    /\ outEnd \in {"eof", "error"} /\ logEnd = "eof" /\ cut \in Boundaries(frames) =>
         outEnd = "eof"
    /\ outEnd = "eof" => logEnd = "eof"

\* the pump forwarded the payloads of two frames of two bytes and ended
\* cleanly at the end of the stream
C26_Witness ==
  /\ ~tty
  /\ outEnd = "eof"
  /\ Len(frames) = 2
  /\ cut = Len(Mux(frames, 1))
  /\ forwarded = <<PayloadOf(1, 2), PayloadOf(2, 2)>>
\* C28: in TTY mode the messages forwarded, put together, are the bytes read
\* from the log stream, in order, with nothing added, dropped or reordered,
\* the bytes of a Read that also reports the end or an error included: they
\* equal the bytes read but for the chunk about to be written, or the one
\* chunk whose write to the client failed, and a pump that ended without a
\* write error has forwarded every byte the stream held.
C28_TTYForwardsVerbatim ==
  tty =>
    /\ IsPrefix(Flatten(forwarded), readBytes)
    /\ readBytes = Flatten(forwarded) \o payload \/ outEnd = "write"
    /\ \A k \in DOMAIN forwarded : forwarded[k] # <<>>
    /\ outEnd \in {"eof", "error"} =>
         /\ Flatten(forwarded) = Take(RawBytes, cut)
         /\ logBuf = <<>>

\* the stream was forwarded in more than one message, the last of them read
\* by the Read that reported the end of the stream
C28_Witness ==
  /\ tty
  /\ outEnd = "eof"
  /\ hpc = "done"
  /\ Len(forwarded) >= 2
  /\ Len(forwarded[Len(forwarded)]) >= 2
  /\ Flatten(forwarded) = RawBytes
\* the messages the inbound goroutine has read and is done with
Handled == IF ipc = "write" THEN Take(received, Len(received) - 1) ELSE received

\* C29: the inbound pump writes to the container's input, for each message of
\* the client in the order received, the bytes of the message followed by
\* exactly one line terminator, and nothing else.
C29_StdinIsTerminatedMessages ==
  /\ stdin = Flatten([k \in 1..Len(Handled) |-> Handled[k] \o <<LF>>])
  /\ ipc = "write" => received # <<>> /\ inMsg = received[Len(received)]

\* two messages were written, the second of them ending in a line terminator
\* of its own
C29_Witness ==
  /\ ipc # "write"
  /\ received = <<<<97>>, <<98, LF>>>>
  /\ stdin = <<97, LF, 98, LF, LF>>
\* one console session whose client sends messages and may leave, with
\* every goroutine that can take a step taking it in the end
NextTeardown ==
  \/ HandleInput
  \/ \E ok \in BOOLEAN : Resolve(ok)
  \/ \E ok \in BOOLEAN : Inspect(ok)
  \/ \E ok \in BOOLEAN : Upgrade(ok)
  \/ \E ok \in BOOLEAN : OpenLogs(ok)
  \/ \E ok \in BOOLEAN : Attach(ok)
  \/ ReadLog
  \/ ReadHeader
  \/ Deferred
  \/ ReadMessage
  \/ \E ok \in BOOLEAN : WriteStdin(ok)
  \/ ClientClose

\* the goroutines of the session are scheduled
FairSession ==
  /\ WF_vars(\E ok \in BOOLEAN : Resolve(ok))
  /\ WF_vars(\E ok \in BOOLEAN : Inspect(ok))
  /\ WF_vars(\E ok \in BOOLEAN : Upgrade(ok))
  /\ WF_vars(\E ok \in BOOLEAN : OpenLogs(ok))
  /\ WF_vars(\E ok \in BOOLEAN : Attach(ok))
  /\ WF_vars(ReadLog)
  /\ WF_vars(ReadHeader)
  /\ WF_vars(Deferred)
  /\ WF_vars(ReadMessage)
  /\ WF_vars(\E ok \in BOOLEAN : WriteStdin(ok))

SpecTeardown == Init /\ [][NextTeardown]_vars /\ FairSession

\* the outbound pump has ended; the inbound pump has ended
OutboundEnded == outEnd # "none"
InboundEnded == ipc = "done"

\* both pumps are over and the log stream and the attach handle are released
TornDown ==
  /\ hpc = "done"
  /\ ipc \in {"none", "done"}
  /\ logState # "open"
  /\ attachState # "open"

\* the end of the outbound pump tears the session down
OutboundEndTearsDown == OutboundEnded ~> TornDown

\* C27: when either pump ends the other is torn down in the end and the
\* attach handle and the log stream are released; in particular the end of
\* the inbound pump, the client gone, ends the outbound pump even if the
\* container writes nothing more.
C27_EitherEndTearsDown == (OutboundEnded \/ InboundEnded) ~> TornDown

(***************************************************************************)
(* The fan-out of one tick against subscribers that come and go.           *)
(***************************************************************************)
\* how many times ch occurs in the sequence q
Occurrences(q, ch) == Cardinality({i \in 1..Len(q) : q[i] = ch})

\* the conduits the range of loop l has offered the sample to once the
\* iteration in progress is over
OfferedBy(l) == Append(snap[l].offered, SnapElem(l))

\* the range of loop l ends in this step without a panic
RangeEnds(l) == pc[l] = "send" /\ pc'[l] # "send" /\ ~panicked'

\* ch was in the slice the tick of loop l copied and is in it still
Stayed(l, ch) ==
  /\ \E i \in 1..Len(snap[l].start) : snap[l].start[i] = ch
  /\ IndexOf(listeners[Head(servers[l])], ch) # 0

\* C31: a conduit that stays registered for a target throughout a tick is
\* offered the tick's sample for the target exactly once, whatever other
\* subscribers of the target do while the fan-out iterates.
C31_StayedOfferedOnce ==
  [][\A l \in Loops : RangeEnds(l) =>
       \A ch \in Chans : Stayed(l, ch) => Occurrences(OfferedBy(l), ch) = 1]_vars

\* loop l is inside a call that leaves the process or waits on a channel
InIO(l) == pc[l] \in {"collect", "fetch", "insert", "send", "sweep"}

\* C32: the lock of the collector is held only across the map operations:
\* in no state does a loop hold it while its query, its metrics fetch, its
\* insert, its sweep or a send to a conduit is in progress.
C32_LockOnlyAcrossMapOps == \A l \in Loops : InIO(l) => mu # l

\* a fan-out is in progress and the registry has changed under it: a
\* Subscribe or Unsubscribe took the lock while the tick was sending
C32_Witness ==
  \E l \in Loops :
    /\ pc[l] = "send"
    /\ mu = 0
    /\ snap[l].offered # <<>>
    /\ listeners[Head(servers[l])].len # snap[l].len

(***************************************************************************)
(* Live-stats sessions against one polling loop.                           *)
(***************************************************************************)
\* one polling loop, a store and a Docker daemon that answer, and clients
\* that open and leave live feeds
NextLive ==
  \/ StartOnce
  \/ \E l \in Loops : TickerFire(l)
  \/ \E l \in Loops : Select(l)
  \/ \E l \in Loops : Query(l, TRUE)
  \/ \E l \in Loops : Fetch(l, TRUE)
  \/ \E l \in Loops : Insert(l, TRUE)
  \/ \E l \in Loops : Lock(l)
  \/ \E l \in Loops : Cache(l)
  \/ \E l \in Loops : Send(l)
  \/ \E l \in Loops : Sweep(l, TRUE)
  \/ \E s \in Sessions, t \in TargetSet, ok \in BOOLEAN : LiveInOrder(s, t, ok)
  \/ \E s \in Sessions : LiveSubscribe(s)
  \/ \E s \in Sessions, ok \in BOOLEAN : LiveLatest(s, ok)
  \/ \E s \in Sessions, ok \in BOOLEAN : LiveForward(s, ok)
  \/ \E s \in Sessions : LiveReturn(s)
  \/ \E s \in Sessions : LiveDeferred(s)

SpecLive == Init /\ [][NextLive]_vars

\* session s holds a conduit that its deferred call has not yet given back
Holding(s) == live[s].pc \in {"latest", "pump", "defer"}

\* session s subscribed and is over
Ended(s) == live[s].pc = "done" /\ live[s].ch # 0

\* how many slots of the subscriber list of t hold ch
SlotsOf(t, ch) == Occurrences(SliceElems(listeners[t]), ch)

\* every session requested for t is over
AllEnded(t) == \A s \in Sessions : live[s].srv = t => live[s].pc = "done"

\* the registry agrees with the sessions
RegistryMatchesSessions ==
  /\ \A s \in Sessions :
       Holding(s) =>
         /\ live[s].ch # 0
         /\ ~chanClosed[live[s].ch]
         /\ \A t \in TargetSet :
              SlotsOf(t, live[s].ch) = IF t = live[s].srv THEN 1 ELSE 0
         /\ \A o \in Sessions \ {s} : live[o].ch # live[s].ch
  /\ \A s \in Sessions :
       Ended(s) =>
         /\ chanClosed[live[s].ch]
         /\ \A t \in TargetSet : SlotsOf(t, live[s].ch) = 0
  /\ \A t \in TargetSet : AllEnded(t) => listeners[t].len = 0

\* the deferred call of a session closes a conduit that was open
ClosesOnce ==
  \A s \in Sessions :
    (live[s].pc = "defer" /\ live'[s].pc = "done") =>
      ~chanClosed[live[s].ch] /\ chanClosed'[live[s].ch]

\* C33: a live-stats session registers exactly one conduit when it opens;
\* when it ends, because the client left or a write failed, that conduit is
\* removed from the registry and closed exactly once; once all sessions of a
\* target have ended its subscriber list holds no conduit.
C33_SessionOwnsOneConduit == []RegistryMatchesSessions /\ [][ClosesOnce]_vars

\* two sessions of one target have subscribed and have ended while the loop
\* was collecting samples
C33_Witness ==
  \E s, o \in Sessions :
    /\ s # o
    /\ Ended(s) /\ Ended(o)
    /\ live[s].srv = live[o].srv
    /\ nextSample > 1

(***************************************************************************)
(* The two background loops against a store that fails.                    *)
(***************************************************************************)
\* the CRUD layer has stored enabled schedules that are due every minute
CreateEveryMinute ==
  /\ CreateSchedules
  /\ \A i \in 1..MaxSchedules :
       schedules'[i].enabled /\ schedules'[i].cron_expr = EveryMinute

\* the polling loop and the scheduler loop, no subscribers, a steady clock,
\* and a store whose two listing queries may fail
NextStoreDown ==
  \/ StartOnce
  \/ \E l \in Loops : TickerFire(l)
  \/ \E l \in Loops : Select(l)
  \/ \E l \in Loops, ok \in BOOLEAN : Query(l, ok)
  \/ \E l \in Loops : Fetch(l, TRUE)
  \/ \E l \in Loops : Insert(l, TRUE)
  \/ \E l \in Loops : Lock(l)
  \/ \E l \in Loops : Cache(l)
  \/ \E l \in Loops : Sweep(l, TRUE)
  \/ CreateEveryMinute
  \/ SchedulerStart
  \/ Tock
  \/ Sleep
  \/ Wake
  \/ \E ok \in BOOLEAN : ListSchedules(ok)
  \/ Evaluate
  \/ Return(TRUE)
  \/ StampLastRun(TRUE)

SpecStoreDown == Init /\ [][NextStoreDown]_vars

\* the query of a tick of loop l fails: collect returns from its first call
ServersQueryFails(l) == pc[l] = "collect" /\ pc'[l] \notin {"collect", "fetch", "sweep"}

\* the query of a pass fails: tick returns from its first call
SchedulesQueryFails == spc = "query" /\ spc' # "query" /\ jobs' = <<>>

\* a tick whose query fails stores, caches and sends nothing, and the loop
\* is back at its select
TickEndsQuietly(l) ==
  /\ stats_rows' = stats_rows
  /\ latest' = latest
  /\ chanBuf' = chanBuf
  /\ pc'[l] = "select"
  /\ ~cancelled'[l]

\* a pass whose query fails dispatches nothing, stamps nothing, and the loop
\* is back at computing its next wake
PassEndsQuietly ==
  /\ dispatched' = <<>>
  /\ inflight' = inflight
  /\ schedules' = schedules
  /\ spc' = "compute"
  /\ ~schedCancelled'

\* C34: a store failure never ends a background loop.  When the listing of
\* the running servers fails the tick ends without storing, caching or
\* sending anything, when the listing of the enabled schedules fails the
\* pass dispatches nothing and stamps no last_run, and either loop goes on
\* to wait for its next tick or pass.
C34_StoreFailureKeepsLoops ==
  [][/\ \A l \in Loops : ServersQueryFails(l) => TickEndsQuietly(l)
     /\ SchedulesQueryFails => PassEndsQuietly]_vars

\* the first tick failed its query and the loop waits for the next one; the
\* first pass failed its query, stamping nothing, and a later pass is
\* evaluating the schedules
C34_Witness ==
  /\ \E l \in Loops : pc[l] = "parked" /\ nextSample = 1
  /\ Cardinality(passes) > 1
  /\ spc = "evaluate"
  /\ \A i \in 1..Len(schedules) : schedules[i].last_run = NeverRun

(***************************************************************************)
(* The inbound pump of the console against an input that refuses a write.  *)
(***************************************************************************)
\* the inbound goroutine takes a further message of the client to write it
ReadsOn == ipc = "read" /\ ipc' = "write"

\* every message read so far is in the input of the container
AllWritten == stdin = Flatten([k \in 1..Len(received) |-> StdinLine(received[k])])

\* C35: a write error on the inbound pump ends the inbound pump: once the
\* write of a client message to the input of the container has failed, no
\* further client message is read to be written.
C35_WriteErrorEndsInbound == [][ReadsOn => AllWritten]_vars

(***************************************************************************)
(* The WebSocket endpoints against requests with and without a login.      *)
(***************************************************************************)
\* Handle runs for the console request the router dispatched, of a client
\* that is going to send nothing
HandleDispatched == consoleReq.arrived /\ HandleInput /\ clientMsgs' = <<>>

\* Live runs for the live-stats request the router dispatched
LiveDispatched(s, t, ok) == liveReq[s].arrived /\ LiveInOrder(s, t, ok)

\* logins that come and go, and requests to the two WebSocket endpoints
\* with any token or none, up to the point where the session is set up
NextWsAuth ==
  \/ \E token \in LoginTokens : Login(token)
  \/ \E token \in LoginTokens : SessionExpires(token)
  \/ \E token \in LoginTokens : Logout(token)
  \/ \E token \in QueryTokens : DispatchConsole(token)
  \/ HandleDispatched
  \/ \E ok \in BOOLEAN : Resolve(ok)
  \/ \E ok \in BOOLEAN : Inspect(ok)
  \/ \E ok \in BOOLEAN : Upgrade(ok)
  \/ \E ok \in BOOLEAN : OpenLogs(ok)
  \/ \E ok \in BOOLEAN : Attach(ok)
  \/ \E s \in Sessions, token \in QueryTokens : DispatchLive(s, token)
  \/ \E s \in Sessions, t \in TargetSet, ok \in BOOLEAN : LiveDispatched(s, t, ok)
  \/ \E s \in Sessions : LiveSubscribe(s)

SpecWsAuth == Init /\ [][NextWsAuth]_vars

\* the console session is set up: the connection is upgraded or attached
ConsoleEstablished == upgraded \/ attachState = "open"

\* live-stats session s is set up: the connection is upgraded or a conduit
\* is subscribed
LiveEstablished(s) == live[s].pc \in {"subscribe", "latest", "pump", "defer"}

\* C36: the console and the live-stats WebSocket endpoints are authenticated
\* by the token parameter of the query: a session is set up only for a
\* request whose token belonged to a valid, unexpired login session when the
\* request arrived.
C36_WsNeedsValidToken ==
  /\ ConsoleEstablished => consoleReq.valid
  /\ \A s \in Sessions : LiveEstablished(s) => liveReq[s].valid

(***************************************************************************)
(* A restore against lifecycle actions on the same servers.                *)
(***************************************************************************)
\* restore requests, and starts, stops and restarts by the scheduler or the
\* API at any moment
NextRestore ==
  \/ \E t \in TargetSet : Restore(t)
  \/ \E ok \in BOOLEAN : RestoreCheck(ok)
  \/ \E ok \in BOOLEAN : RestorePath(ok)
  \/ \E ok \in BOOLEAN : RestoreClear(ok)
  \/ \E ok \in BOOLEAN : RestoreMkdir(ok)
  \/ \E ok \in BOOLEAN : RestoreExtract(ok)
  \/ \E a \in Actions, t \in TargetSet, ok \in BOOLEAN : Lifecycle(a, t, ok)

SpecRestore == Init /\ [][NextRestore]_vars

\* the data directory is being cleared or filled: RemoveAll has begun and
\* extractTarGz has not returned
Restoring == restore.pc \in {"mkdir", "extract"}

\* C37: a restore runs only while the server is stopped: whatever start of
\* the same server, by the scheduler or the API, is interleaved with the
\* restore request, the stored status of the server is not running at any
\* moment between the start of clearing its data directory and the end of
\* the extraction.
C37_RestoreOnlyWhileStopped == Restoring => status[restore.srv] # "running"

(***************************************************************************)
(* Minute boundaries that go by while a pass is running.                   *)
(***************************************************************************)
\* the loop computes its next wake and goes to sleep
SleepStep == spc = "compute" /\ spc' = "sleep"

\* the wake is the first minute boundary strictly after the present moment
WakesAtNextBoundary ==
  /\ sleepLeft' > 0
  /\ sleepLeft' <= TicksPerMinute
  /\ (wall + sleepLeft') % TicksPerMinute = 0

\* no pass has started in a minute whose boundary went by during a pass, and
\* the pass in progress does not evaluate the schedules against such a minute
NoPassForOverrun ==
  /\ overrun \cap passes = {}
  /\ InPass => MinuteOf(tickNow) \notin overrun

\* C38: the loop computes its next wake only after an evaluation pass has
\* returned, as the first minute boundary strictly after that moment; a
\* minute boundary that goes by while a pass is running gets no pass of its
\* own, so no schedule is evaluated against that minute.
C38_OverrunMinuteSkipped ==
  /\ []NoPassForOverrun
  /\ [][SleepStep => ~InPass /\ jobs = <<>> /\ WakesAtNextBoundary]_vars

\* a pass ran over a minute boundary and returned within that minute, and the
\* loop sleeps to the boundary after it
C38_Witness ==
  /\ spc = "sleep"
  /\ sleepLeft > 0
  /\ MinuteOf(wall) \in overrun
  /\ passes # {}

(***************************************************************************)
(* Fields of an accepted expression that hold no value.                    *)
(***************************************************************************)
\* C39: every expression ParseCron accepts yields a non-empty set for each
\* of its five fields: no accepted expression has a field that can never
\* match.
C39_AcceptedFieldsNonEmpty ==
  (Parsed /\ cronResult.ok) => \A i \in 1..Len(FieldNames) : FieldSet(i) # {}

(***************************************************************************)
(* The schedules table under calls of Create and Update.                   *)
(***************************************************************************)
\* the schedules of the first server: one is created, and one is updated
\* under an id that may name no row
ScheduleCreateFirst(b) == ScheduleCreate(Targets[1], b)
ScheduleUpdateFirst(id, b) == ScheduleUpdate(Targets[1], id, b)

\* the bodies that leave enabled out or switch the schedule off
DisablingBodies == {b \in Bodies : ~b.enabled}

\* requests to create schedules and to update them, against a store whose
\* statements may fail
NextScheduleApi ==
  \/ \E b \in CreateBodies : ScheduleCreateFirst(b)
  \/ \E id \in 1..MaxSchedules, b \in DisablingBodies : ScheduleUpdateFirst(id, b)
  \/ ScheduleValidate
  \/ \E ok \in BOOLEAN : ScheduleInsert(ok)
  \/ \E ok \in BOOLEAN : ScheduleSetCron(ok)
  \/ \E ok \in BOOLEAN : ScheduleSetAction(ok)
  \/ \E ok \in BOOLEAN : ScheduleSetEnabled(ok)
  \/ ScheduleAnswer

SpecScheduleApi == Init /\ [][NextScheduleApi]_vars

\* the body of the request in progress names an expression ParseCron
\* accepts, if it names one, and a known action, if it names one
AcceptableBody ==
  /\ schedReq.body.hasCron => ParseCron(schedReq.body.cron_expr).ok
  /\ schedReq.body.hasAction => schedReq.body.action \in Actions

\* every stored schedule has an expression that parses and a known action
StoredSchedulesValid ==
  \A i \in 1..Len(schedules) :
    /\ schedules[i].action \in Actions
    /\ ParseCron(schedules[i].cron_expr).ok

\* C40: Create and Update write to the schedules table only if the cron
\* expression of the body is accepted by ParseCron and its action is one of
\* start, stop, restart, backup; a request answered 400 has left the table
\* as it was, and every stored schedule has a parseable expression and a
\* known action.
C40_OnlyValidatedWrites ==
  /\ []StoredSchedulesValid
  /\ [][schedules' # schedules => AcceptableBody /\ schedReq'.resp # "400"]_vars
  /\ [][schedReq'.resp = "400" => schedules' = schedules /\ schedReq.pc = "validate"]_vars

\* a schedule was created, an Update with an unknown action was answered
\* 400, and the schedule is as Create stored it
C40_Witness ==
  /\ schedReq.op = "update"
  /\ schedReq.resp = "400"
  /\ schedReq.msg = "action must be one of: start, stop, restart, backup"
  /\ RowExists(schedReq.id, schedReq.srv)
  /\ schedules[schedReq.id].action \in Actions

====
